---- MODULE Spec2Model ----
(***************************************************************************)
(* Research-To-Blog: the quality-gated pipeline engine.                     *)
(*                                                                         *)
(* The model covers the LangGraph orchestration of app/graph/workflow.py,   *)
(* the gate of app/tools/quality.py and app/agents/judge.py, the source     *)
(* harvesting of app/agents/sourcer.py and app/tools/scrape.py, the         *)
(* citation mapping of app/tools/citation.py and the LLM access layer of    *)
(* app/llm/clients.py and app/llm/json_guard.py.                            *)
(*                                                                         *)
(* Python floats are modelled as exact rationals [n, d] in lowest terms;    *)
(* Python strings that the code inspects (the failure reasons) are modelled *)
(* as sequences of one-character strings.                                   *)
(***************************************************************************)
EXTENDS Integers, Sequences, FiniteSets, TLC

VARIABLES
    pc,        \* position of the run: the next graph node, "end", "returned",
               \* or "published" once the caller has called publish_article
    state,     \* the LangGraph channel values (the PipelineState of the run)
    ret,       \* what run_pipeline returned, NoState before that
    executed,  \* history: the nodes that ran to completion, in order
    aborted,   \* history: how the run was aborted ("no" when it was not)
    env,       \* the external world of this run: the web and the LLM envelope
    call,      \* the last direct call of a pure function (unit-test style)
    clock,     \* time.time(), in seconds
    limiter,   \* the RateLimiter of the global Groq client
    tasks,     \* the coroutines that call the limiter: where each is in acquire
    granted,   \* history: the acquisitions that returned, in order
    ask,       \* one call of ask_llm_json: its position and its locals
    io         \* the awaiting code under way: a fetch, a fan-out, or runs calling chat

runVars == <<pc, state, ret, executed, aborted, env, call>>

limiterVars == <<clock, limiter, tasks, granted>>

llmVars == <<clock, limiter, tasks, granted, ask, io>>

vars == <<pc, state, ret, executed, aborted, env, call, clock, limiter, tasks,
          granted, ask, io>>

----------------------------------------------------------------------------
(* Bounds of the model                                                      *)

\* URLs on the web in the source-rich world
NumUrls == 8
\* URLs on the web in the claim-rich world
SmallWeb == 1
\* claims the summarizer extracts per run iteration in the claim-rich world
MaxClaims == 1
\* sentences of the written article in the claim-rich world
MaxSentences == 1
\* largest retry_count / max_retries argument tried on direct calls
MaxRetryArg == 3

----------------------------------------------------------------------------
(* Rationals (Python floats)                                                *)

RECURSIVE GCD(_, _)
GCD(a, b) ==
    IF b = 0 THEN a ELSE GCD(b, a % b)

Rat(n, d) ==
    IF n = 0 THEN [n |-> 0, d |-> 1]
    ELSE [n |-> n \div GCD(n, d), d |-> d \div GCD(n, d)]

RatLt(a, b) ==
    a.n * b.d < b.n * a.d

RatLe(a, b) ==
    a.n * b.d <= b.n * a.d

RatAdd(a, b) ==
    Rat(a.n * b.d + b.n * a.d, a.d * b.d)

Zero == Rat(0, 1)

One == Rat(1, 1)

----------------------------------------------------------------------------
(* Strings as character sequences, str.lower, the `in` operator, formats    *)

UpperChars ==
    <<"A","B","C","D","E","F","G","H","I","J","K","L","M","N","O","P","Q","R","S","T","U","V","W","X","Y","Z">>

LowerChars ==
    <<"a","b","c","d","e","f","g","h","i","j","k","l","m","n","o","p","q","r","s","t","u","v","w","x","y","z">>

DigitChars ==
    <<"0","1","2","3","4","5","6","7","8","9">>

LowerChar(c) ==
    IF \E i \in 1..Len(UpperChars) : UpperChars[i] = c
    THEN LowerChars[CHOOSE i \in 1..Len(UpperChars) : UpperChars[i] = c]
    ELSE c

\* str.lower()
Lower(s) ==
    [i \in 1..Len(s) |-> LowerChar(s[i])]

\* needle in hay
Contains(hay, needle) ==
    \E i \in 1..(Len(hay) - Len(needle) + 1) :
        SubSeq(hay, i, i + Len(needle) - 1) = needle

RECURSIVE NatToChars(_)
NatToChars(k) ==
    IF k < 10 THEN <<DigitChars[k + 1]>>
    ELSE NatToChars(k \div 10) \o <<DigitChars[(k % 10) + 1]>>

\* round(n / d) to the nearest integer, ties to even
RoundHalfEven(n, d) ==
    LET q == n \div d
        r == n % d
    IN  IF 2 * r < d THEN q
        ELSE IF 2 * r > d THEN q + 1
        ELSE IF q % 2 = 0 THEN q ELSE q + 1

\* f"{x:.1%}"
FormatPercent1(x) ==
    LET t == RoundHalfEven(x.n * 1000, x.d)
    IN  NatToChars(t \div 10) \o <<".", DigitChars[(t % 10) + 1], "%">>

\* f"{x:.2f}"
FormatFixed2(x) ==
    LET h == RoundHalfEven(x.n * 100, x.d)
    IN  NatToChars(h \div 100)
        \o <<".", DigitChars[((h \div 10) % 10) + 1], DigitChars[(h % 10) + 1]>>

----------------------------------------------------------------------------
(* Settings                                                                 *)

min_citation_coverage == Rat(95, 100)

max_unsupported_claims == Rat(5, 100)

min_fact_confidence == Rat(7, 10)

DefaultThresholds ==
    [min_citation_coverage |-> min_citation_coverage,
     max_unsupported_claims |-> max_unsupported_claims,
     min_fact_confidence |-> min_fact_confidence]

\* max_retries as judge_node passes it to should_retry
JudgeMaxRetries == 2

\* max_sources of source_node (the default of harvest_sources)
SourceMaxSources == 12

\* max_search_results of source_node (the default of harvest_sources)
SourceMaxSearchResults == 30

\* max_sources of retry_node
RetryMaxSources == 5

\* max_search_results of retry_node
RetryMaxSearchResults == 20

\* the reading-level band of check_quality_gates
ReadingLow == 50

ReadingHigh == 80

----------------------------------------------------------------------------
(* Quality metrics (app/tools/quality.py)                                   *)

RECURSIVE CountUnsupported(_)
CountUnsupported(verdicts) ==
    IF verdicts = <<>> THEN 0
    ELSE (IF Head(verdicts).verdict \in {"refuted", "needs-more-evidence"} THEN 1 ELSE 0)
         + CountUnsupported(Tail(verdicts))

\* variant: only refuted verdicts count as unsupported
calculate_refuted_claim_rate(verdicts) ==
    IF verdicts = <<>> THEN Zero
    ELSE Rat(Cardinality({ i \in DOMAIN verdicts : verdicts[i].verdict = "refuted" }),
             Len(verdicts))

calculate_unsupported_claim_rate(verdicts) ==
    IF verdicts = <<>> THEN Zero
    ELSE Rat(CountUnsupported(verdicts), Len(verdicts))

RECURSIVE SumConfidence(_)
SumConfidence(verdicts) ==
    IF verdicts = <<>> THEN Zero
    ELSE RatAdd(Head(verdicts).confidence, SumConfidence(Tail(verdicts)))

\* variant: no verdict counts as full confidence
calculate_average_confidence_vacuous(verdicts) ==
    IF verdicts = <<>> THEN One
    ELSE LET s == SumConfidence(verdicts)
         IN  Rat(s.n, s.d * Len(verdicts))

calculate_average_confidence(verdicts) ==
    IF verdicts = <<>> THEN Zero
    ELSE LET s == SumConfidence(verdicts)
         IN  Rat(s.n, s.d * Len(verdicts))

calculate_citation_coverage(citation_map) ==
    citation_map.coverage_rate

calculate_quality_metrics(citation_map, verdicts, reading_level, sources_count) ==
    [citation_coverage |-> calculate_citation_coverage(citation_map),
     unsupported_claim_rate |-> calculate_unsupported_claim_rate(verdicts),
     avg_fact_confidence |-> calculate_average_confidence(verdicts),
     reading_level |-> reading_level,
     total_claims |-> Len(verdicts),
     total_sources |-> sources_count,
     total_citations |-> Len(citation_map.bibliography)]

----------------------------------------------------------------------------
(* The gate (check_quality_gates)                                           *)

CoverageFailure(metrics, thr) ==
    <<"C","i","t","a","t","i","o","n"," ","c","o","v","e","r","a","g","e"," ">>
    \o FormatPercent1(metrics.citation_coverage)
    \o <<" ","b","e","l","o","w"," ","t","h","r","e","s","h","o","l","d"," ">>
    \o FormatPercent1(thr.min_citation_coverage)

UnsupportedFailure(metrics, thr) ==
    <<"U","n","s","u","p","p","o","r","t","e","d"," ","c","l","a","i","m"," ","r","a","t","e"," ">>
    \o FormatPercent1(metrics.unsupported_claim_rate)
    \o <<" ","e","x","c","e","e","d","s"," ","t","h","r","e","s","h","o","l","d"," ">>
    \o FormatPercent1(thr.max_unsupported_claims)

ConfidenceFailure(metrics, thr) ==
    <<"A","v","e","r","a","g","e"," ","f","a","c","t"," ","c","o","n","f","i","d","e","n","c","e"," ">>
    \o FormatFixed2(metrics.avg_fact_confidence)
    \o <<" ","b","e","l","o","w"," ","t","h","r","e","s","h","o","l","d"," ">>
    \o FormatFixed2(thr.min_fact_confidence)

\* variant: a coverage exactly on the threshold fails
CoverageViolatedInclusive(metrics, thr) ==
    RatLe(metrics.citation_coverage, thr.min_citation_coverage)

CoverageViolated(metrics, thr) ==
    RatLt(metrics.citation_coverage, thr.min_citation_coverage)

UnsupportedViolated(metrics, thr) ==
    RatLt(thr.max_unsupported_claims, metrics.unsupported_claim_rate)

ConfidenceViolated(metrics, thr) ==
    RatLt(metrics.avg_fact_confidence, thr.min_fact_confidence)

\* a recommendation: its fixed text and the number formatted into it
Recommendation(text, k) ==
    [text |-> text, n |-> k]

\* variant: a reading level exactly on a boundary draws the advice too
ReadingRecommendationInclusive(metrics) ==
    IF metrics.reading_level <= ReadingLow
    THEN <<Recommendation("Reading level is difficult", metrics.reading_level)>>
    ELSE IF metrics.reading_level >= ReadingHigh
    THEN <<Recommendation("Reading level may be too simple", metrics.reading_level)>>
    ELSE <<>>

ReadingRecommendation(metrics) ==
    IF metrics.reading_level < ReadingLow
    THEN <<Recommendation("Reading level is difficult", metrics.reading_level)>>
    ELSE IF metrics.reading_level > ReadingHigh
    THEN <<Recommendation("Reading level may be too simple", metrics.reading_level)>>
    ELSE <<>>

check_quality_gates(metrics, thr) ==
    LET c == CoverageViolated(metrics, thr)
        u == UnsupportedViolated(metrics, thr)
        f == ConfidenceViolated(metrics, thr)
    IN  [passed |-> ~c /\ ~u /\ ~f,
         failures |->
             (IF c THEN <<CoverageFailure(metrics, thr)>> ELSE <<>>)
             \o (IF u THEN <<UnsupportedFailure(metrics, thr)>> ELSE <<>>)
             \o (IF f THEN <<ConfidenceFailure(metrics, thr)>> ELSE <<>>),
         recommendations |->
             (IF c THEN <<Recommendation("Add citations to uncited sentences or mark them as common knowledge", 0)>>
              ELSE <<>>)
             \o (IF u THEN <<Recommendation("Find additional sources for unsupported claims or remove them", 0)>>
                 ELSE <<>>)
             \o (IF f THEN <<Recommendation("Strengthen claims with better evidence or use more authoritative sources", 0)>>
                 ELSE <<>>)
             \o ReadingRecommendation(metrics)]

----------------------------------------------------------------------------
(* The judge (app/agents/judge.py)                                          *)

RECURSIVE CountVerdict(_, _)
CountVerdict(verdicts, kind) ==
    IF verdicts = <<>> THEN 0
    ELSE (IF Head(verdicts).verdict = kind THEN 1 ELSE 0)
         + CountVerdict(Tail(verdicts), kind)

\* variant: the verdict analysis is reported whether or not the gate passed
evaluate_quality_always_advises(metrics, verdicts, retry_count) ==
    LET g == check_quality_gates(metrics, DefaultThresholds)
        needs_evidence == CountVerdict(verdicts, "needs-more-evidence")
        refuted == CountVerdict(verdicts, "refuted")
    IN  [passed |-> g.passed,
         gate_name |-> "quality_gate",
         metrics |-> metrics,
         failure_reasons |-> g.failures,
         recommendations |->
             g.recommendations
             \o (IF needs_evidence > 0
                 THEN <<Recommendation("Find additional sources for claims marked needs-more-evidence",
                                       needs_evidence)>>
                 ELSE <<>>)
             \o (IF refuted > 0
                 THEN <<Recommendation("Remove or revise refuted claims", refuted)>>
                 ELSE <<>>),
         retry_count |-> retry_count]

evaluate_quality(metrics, verdicts, retry_count) ==
    LET g == check_quality_gates(metrics, DefaultThresholds)
        needs_evidence == CountVerdict(verdicts, "needs-more-evidence")
        refuted == CountVerdict(verdicts, "refuted")
    IN  [passed |-> g.passed,
         gate_name |-> "quality_gate",
         metrics |-> metrics,
         failure_reasons |-> g.failures,
         recommendations |->
             g.recommendations
             \o (IF ~g.passed /\ needs_evidence > 0
                 THEN <<Recommendation("Find additional sources for claims marked needs-more-evidence",
                                       needs_evidence)>>
                 ELSE <<>>)
             \o (IF ~g.passed /\ refuted > 0
                 THEN <<Recommendation("Remove or revise refuted claims", refuted)>>
                 ELSE <<>>),
         retry_count |-> retry_count]

fixable_issues ==
    { <<"c","i","t","a","t","i","o","n"," ","c","o","v","e","r","a","g","e">>,
      <<"u","n","s","u","p","p","o","r","t","e","d"," ","c","l","a","i","m","s">>,
      <<"f","a","c","t"," ","c","o","n","f","i","d","e","n","c","e">> }

is_fixable(failure_reasons) ==
    \E i \in 1..Len(failure_reasons) :
        \E issue \in fixable_issues : Contains(Lower(failure_reasons[i]), issue)

\* variant: the retry bound is compared with > instead of >=
should_retry_late(decision, max_retries) ==
    IF decision.passed THEN FALSE
    ELSE IF decision.retry_count > max_retries THEN FALSE
    ELSE is_fixable(decision.failure_reasons)

should_retry(decision, max_retries) ==
    IF decision.passed THEN FALSE
    ELSE IF decision.retry_count >= max_retries THEN FALSE
    ELSE is_fixable(decision.failure_reasons)

----------------------------------------------------------------------------
(* Source harvesting (app/agents/sourcer.py, app/tools/scrape.py)           *)

\* sha256 of the canonical URL: URL 2 redirects to the page of URL 1
SourceId(url) ==
    IF url = 2 THEN 1 ELSE url

\* sha256 of the extracted content: the page of URL 4 mirrors that of URL 3
ContentHash(url) ==
    IF url = 4 THEN 3 ELSE SourceId(url)

\* 0.6 * relevance + 0.4 * authority of a page, in tenths
Score(source) ==
    (source.source_id * 2) % 5

scrape_url(url) ==
    [source_id |-> SourceId(url), content_hash |-> ContentHash(url)]

\* dead: the URLs whose fetch fails (scrape_url returns None for them)
RECURSIVE scrape_urls(_, _)
scrape_urls(urls, dead) ==
    IF urls = <<>> THEN <<>>
    ELSE (IF Head(urls) \in dead THEN <<>> ELSE <<scrape_url(Head(urls))>>)
         \o scrape_urls(Tail(urls), dead)

RECURSIVE DedupFrom(_, _, _)
DedupFrom(sources, seen_hashes, seen_ids) ==
    IF sources = <<>> THEN <<>>
    ELSE LET s == Head(sources)
         IN  IF s.content_hash \notin seen_hashes /\ s.source_id \notin seen_ids
             THEN <<s>> \o DedupFrom(Tail(sources),
                                     seen_hashes \cup {s.content_hash},
                                     seen_ids \cup {s.source_id})
             ELSE DedupFrom(Tail(sources), seen_hashes, seen_ids)

deduplicate_sources(sources) ==
    DedupFrom(sources, {}, {})

\* insert s behind every element whose score is at least its own
RECURSIVE InsertRanked(_, _)
InsertRanked(s, ranked) ==
    IF ranked = <<>> THEN <<s>>
    ELSE IF Score(Head(ranked)) >= Score(s)
         THEN <<Head(ranked)>> \o InsertRanked(s, Tail(ranked))
         ELSE <<s>> \o ranked

\* list.sort(key=score, reverse=True): stable, descending
RECURSIVE RankFrom(_, _)
RankFrom(sources, ranked) ==
    IF sources = <<>> THEN ranked
    ELSE RankFrom(Tail(sources), InsertRanked(Head(sources), ranked))

rank_sources(sources) ==
    RankFrom(sources, <<>>)

Take(seq, k) ==
    SubSeq(seq, 1, IF Len(seq) < k THEN Len(seq) ELSE k)

\* search_results: what multi_query_search returned (distinct URLs)
harvest_sources(search_results, dead, max_sources, max_search_results) ==
    LET urls == Take(search_results, max_search_results)
        sources == rank_sources(deduplicate_sources(scrape_urls(urls, dead)))
    IN  [sources |-> Take(sources, max_sources),
         total_candidates |-> Len(sources)]

----------------------------------------------------------------------------
(* The external world of one run                                            *)

\* many pages on the web, an LLM that extracts no claims
SourceRichWorld ==
    [urls |-> NumUrls, claims |-> 0, sentences |-> 0, readings |-> {40, 65}]

\* few pages on the web, an LLM whose claims, verdicts and citations vary
ClaimRichWorld ==
    [urls |-> SmallWeb, claims |-> MaxClaims, sentences |-> MaxSentences,
     readings |-> {65}]

\* what multi_query_search can return: a leading part of the engine's ranking
SearchResults(w) ==
    { [i \in 1..k |-> i] : k \in 0..w.urls }

\* which fetches can fail during one harvest: none, or one URL
DeadUrls(w) ==
    {{}} \cup { {u} : u \in 1..w.urls }

VerdictValues ==
    { [verdict |-> "supported", confidence |-> Rat(9, 10)],
      [verdict |-> "supported", confidence |-> Rat(1, 2)],
      [verdict |-> "refuted", confidence |-> Rat(9, 10)],
      [verdict |-> "needs-more-evidence", confidence |-> Rat(3, 10)],
      [verdict |-> "common-knowledge", confidence |-> One] }

\* the verdicts the fact checker returns in a run
RunVerdictValues ==
    { v \in VerdictValues : v.verdict # "common-knowledge" /\ v.confidence # Rat(1, 2) }

\* the text of an article, by the features the pipeline reads from it:
\* its sentences, those carrying a citation or a common-knowledge tag,
\* and its Flesch reading ease
Contents(w) ==
    { [sentences |-> t, cited |-> c, reading |-> r] :
        t \in 0..w.sentences, c \in 0..w.sentences, r \in w.readings }
    \cap { x \in [sentences : 0..w.sentences, cited : 0..w.sentences,
                  reading : w.readings] : x.cited <= x.sentences }

----------------------------------------------------------------------------
(* Run state (app/graph/state.py)                                           *)

\* a PipelineState is a dict: a function from the keys it holds
Has(s, key) ==
    key \in DOMAIN s

\* LangGraph's merge of a node's return value: PipelineState declares no
\* reducer, so every returned key overwrites the stored value
Merge(s, delta) ==
    [k \in (DOMAIN s) \cup (DOMAIN delta) |->
        IF k \in DOMAIN delta THEN delta[k] ELSE s[k]]

NoState == [status |-> "none"]

create_initial_state ==
    [run_id |-> "run", topic_spec |-> "topic", started_at |-> "t0",
     retry_count |-> 0, should_retry |-> FALSE, logs |-> <<>>,
     status |-> "running", error |-> "None"]

Log(text, k) ==
    [text |-> text, n |-> k]

\* state.get("logs", [])
GetLogs(s) ==
    IF Has(s, "logs") THEN s.logs ELSE <<>>

\* state.get("retry_count", 0)
GetRetryCount(s) ==
    IF Has(s, "retry_count") THEN s.retry_count ELSE 0

----------------------------------------------------------------------------
(* Node functions (app/graph/workflow.py)                                   *)

plan_node(s, outline) ==
    [outline |-> outline,
     logs |-> GetLogs(s) \o <<Log("Planning complete", 0)>>]

source_node(s, source_pack) ==
    [source_pack |-> source_pack,
     logs |-> GetLogs(s) \o <<Log("Sourced documents", Len(source_pack.sources))>>]

\* variant: the node returns a log of its own entry alone
index_node_fresh_log(s, num_chunks) ==
    [indexed_chunks |-> num_chunks,
     logs |-> <<Log("Indexed chunks", num_chunks)>>]

index_node(s, num_chunks) ==
    [indexed_chunks |-> num_chunks,
     logs |-> GetLogs(s) \o <<Log("Indexed chunks", num_chunks)>>]

summarize_node(s, drafts) ==
    [draft_sections |-> drafts,
     logs |-> GetLogs(s) \o <<Log("Drafted sections", Len(drafts))>>]

factcheck_node(s, verdicts) ==
    [verdicts |-> verdicts,
     logs |-> GetLogs(s) \o <<Log("Verified claims", Len(verdicts))>>]

\* create_citation_map as write_article uses it: one bibliography entry per
\* source, coverage = cited sentences / sentences, 0.0 without sentences
create_citation_map_counts(content, sources) ==
    [bibliography |-> [i \in 1..Len(sources) |-> [citation_id |-> i]],
     coverage_rate |-> IF content.sentences = 0 THEN Zero
                       ELSE Rat(content.cited, content.sentences)]

write_article(content, sources) ==
    [content |-> content,
     citations |-> create_citation_map_counts(content, sources),
     reading_level |-> content.reading]

write_node(s, article) ==
    [article |-> article,
     logs |-> GetLogs(s) \o <<Log("Article written", 0)>>]

\* variant: the editor maps the citations of the edited text again
edit_article_remaps(article, edited_content) ==
    [article EXCEPT !.content = edited_content,
                    !.reading_level = edited_content.reading,
                    !.citations = create_citation_map_counts(
                                      edited_content,
                                      [i \in DOMAIN article.citations.bibliography |-> i])]

edit_article(article, edited_content) ==
    [article EXCEPT !.content = edited_content,
                    !.reading_level = edited_content.reading]

edit_node(s, edited_article) ==
    [article |-> edited_article,
     logs |-> GetLogs(s) \o <<Log("Article edited and refined", 0)>>]

seo_node(s, seo_metadata) ==
    [seo_metadata |-> seo_metadata,
     logs |-> GetLogs(s) \o <<Log("SEO metadata generated", 0)>>]

\* variant: a citation id without a bibliography entry fails the gate
judge_node_validated(s) ==
    LET metrics == calculate_quality_metrics(s.article.citations, s.verdicts,
                                             s.article.content.reading,
                                             Len(s.source_pack.sources))
        mappings == s.article.citations.sentence_mappings
        dangling == \E i \in DOMAIN mappings : \E j \in DOMAIN mappings[i].citation_ids :
                        mappings[i].citation_ids[j] > Len(s.article.citations.bibliography)
        judged == evaluate_quality(metrics, s.verdicts, GetRetryCount(s))
        decision == [judged EXCEPT !.passed = judged.passed /\ ~dangling]
        retry == should_retry(decision, JudgeMaxRetries)
    IN  [quality_metrics |-> metrics,
         gate_decision |-> decision,
         should_retry |-> retry,
         logs |-> GetLogs(s)
                  \o <<Log(IF decision.passed THEN "Quality gate: PASSED"
                           ELSE "Quality gate: FAILED", 0)>>]

\* variant: the judge asks should_retry with a bound of three retries
judge_node_three_retries(s) ==
    LET metrics == calculate_quality_metrics(s.article.citations, s.verdicts,
                                             s.article.content.reading,
                                             Len(s.source_pack.sources))
        decision == evaluate_quality(metrics, s.verdicts, GetRetryCount(s))
        retry == should_retry(decision, JudgeMaxRetries + 1)
    IN  [quality_metrics |-> metrics,
         gate_decision |-> decision,
         should_retry |-> retry,
         logs |-> GetLogs(s)
                  \o <<Log(IF decision.passed THEN "Quality gate: PASSED"
                           ELSE "Quality gate: FAILED", 0)>>]

judge_node(s) ==
    LET metrics == calculate_quality_metrics(s.article.citations, s.verdicts,
                                             s.article.content.reading,
                                             Len(s.source_pack.sources))
        decision == evaluate_quality(metrics, s.verdicts, GetRetryCount(s))
        retry == should_retry(decision, JudgeMaxRetries)
    IN  [quality_metrics |-> metrics,
         gate_decision |-> decision,
         should_retry |-> retry,
         logs |-> GetLogs(s)
                  \o <<Log(IF decision.passed THEN "Quality gate: PASSED"
                           ELSE "Quality gate: FAILED", 0)>>]

finalize_node(s) ==
    [run_metrics |->
        [run_id |-> s.run_id,
         quality |-> s.quality_metrics,
         status |-> IF s.gate_decision.passed THEN "completed"
                    ELSE "completed_with_warnings"],
     completed_at |-> "now",
     status |-> "completed",
     logs |-> GetLogs(s) \o <<Log("Pipeline complete", 0)>>]

\* variant: the new sources replace the source list
retry_node_replaces(s, additional_sources) ==
    [source_pack |-> [s.source_pack EXCEPT !.sources = additional_sources.sources],
     retry_count |-> GetRetryCount(s) + 1,
     should_retry |-> FALSE,
     logs |-> GetLogs(s)
              \o <<Log("Retry: added more sources", Len(additional_sources.sources))>>]

\* variant: the retry leaves should_retry as the judge set it
retry_node_keeps_flag(s, additional_sources) ==
    LET new_retry_count == GetRetryCount(s) + 1
        all_sources == s.source_pack.sources \o additional_sources.sources
    IN  [source_pack |-> [s.source_pack EXCEPT !.sources = all_sources],
         retry_count |-> new_retry_count,
         logs |-> GetLogs(s)
                  \o <<Log("Retry: added more sources", Len(additional_sources.sources))>>]

retry_node(s, additional_sources) ==
    LET new_retry_count == GetRetryCount(s) + 1
        all_sources == s.source_pack.sources \o additional_sources.sources
    IN  [source_pack |-> [s.source_pack EXCEPT !.sources = all_sources],
         retry_count |-> new_retry_count,
         should_retry |-> FALSE,
         logs |-> GetLogs(s)
                  \o <<Log("Retry: added more sources", Len(additional_sources.sources))>>]

\* the state object a node was passed, as it is when the node returns:
\* retry_node assigns to the sources of state["source_pack"] and returns that
\* pack, edit_article assigns to the fields of state["article"] and returns
\* that article, so the object in the state and the one in the delta are one
StateAfterNode(node, s, delta) ==
    IF node = "retry" THEN [s EXCEPT !.source_pack = delta.source_pack]
    ELSE IF node = "edit" THEN [s EXCEPT !.article = delta.article]
    ELSE s

should_retry_check(s) ==
    IF Has(s, "should_retry") /\ s.should_retry THEN "retry" ELSE "finalize"

\* variant: the retry edge loops back to plan
EdgeRetryToPlan ==
    [plan |-> "source", source |-> "index", index |-> "summarize",
     summarize |-> "factcheck", factcheck |-> "write", write |-> "edit",
     edit |-> "seo", seo |-> "judge", retry |-> "plan", finalize |-> "end"]

\* build_workflow: the unconditional edges
Edge ==
    [plan |-> "source", source |-> "index", index |-> "summarize",
     summarize |-> "factcheck", factcheck |-> "write", write |-> "edit",
     edit |-> "seo", seo |-> "judge", retry |-> "index", finalize |-> "end"]

Nodes ==
    {"plan", "source", "index", "summarize", "factcheck", "write", "edit",
     "seo", "judge", "retry", "finalize"}

----------------------------------------------------------------------------
(* The rate limiter (app/llm/clients.py)                                    *)

\* no pipeline run and no direct call is under way
RunIdle ==
    /\ env = ClaimRichWorld
    /\ pc = "idle"
    /\ state = create_initial_state
    /\ ret = NoState
    /\ executed = <<>>
    /\ aborted = "no"
    /\ call = [op |-> "none", done |-> TRUE]

\* coroutines that call acquire on the one limiter of the global client
NumCallers == 2
\* max_calls_per_minute of the limiter under test
LimiterMaxCalls == 2
\* max_tokens_per_minute of the limiter under test
LimiterMaxTokens == 3
\* acquisitions followed in one behaviour
MaxGrants == 3
\* the clock stops here, in seconds
MaxClock == 61

\* the window of the limiter, in seconds: now - t < 60
Window == 60

\* seconds of one asyncio.sleep(1)
SleepSeconds == 1

\* RateLimiter.__init__; holder is the coroutine inside `async with
\* self._lock`, 0 when the lock is free
RateLimiter(max_calls_per_minute, max_tokens_per_minute) ==
    [max_calls |-> max_calls_per_minute, max_tokens |-> max_tokens_per_minute,
     call_times |-> <<>>, token_usage |-> <<>>, holder |-> 0]

\* a coroutine outside acquire
IdleTask ==
    [pc |-> "idle", estimated_tokens |-> 0, wake_at |-> 0]

\* [x for x in entries if now - t < 60]
Retained(entries, now) ==
    SelectSeq(entries, LAMBDA e : now - e.t < Window)

\* sum(tokens for _, tokens in self.token_usage)
RECURSIVE SumTokens(_)
SumTokens(usage) ==
    IF usage = <<>> THEN 0 ELSE Head(usage).tokens + SumTokens(Tail(usage))

\* variant: the call loop lets one call more into the window
CallLimitReachedLate(call_times) ==
    Len(call_times) > limiter.max_calls

\* line 36: the test of the call loop
CallLimitReached(call_times) ==
    Len(call_times) >= limiter.max_calls

\* acquire from the test of the call loop on, with the lists as pruned so far:
\* either the coroutine goes to sleep inside one of the two loops, still
\* holding the lock, or it records the call and leaves the lock
AcquireFrom(c, now, call_times, token_usage, in_token_loop) ==
    IF ~in_token_loop /\ CallLimitReached(call_times)
    THEN /\ limiter' = [limiter EXCEPT !.call_times = call_times,
                                       !.token_usage = token_usage, !.holder = c]
         /\ tasks' = [tasks EXCEPT ![c].pc = "sleep_calls",
                                   ![c].wake_at = clock + SleepSeconds]
         /\ UNCHANGED granted
    ELSE IF SumTokens(token_usage) + tasks[c].estimated_tokens > limiter.max_tokens
    THEN /\ limiter' = [limiter EXCEPT !.call_times = call_times,
                                       !.token_usage = token_usage, !.holder = c]
         /\ tasks' = [tasks EXCEPT ![c].pc = "sleep_tokens",
                                   ![c].wake_at = clock + SleepSeconds]
         /\ UNCHANGED granted
    ELSE /\ limiter' =
            [limiter EXCEPT
                !.call_times = Append(call_times, [t |-> now]),
                !.token_usage = Append(token_usage,
                                       [t |-> now, tokens |-> tasks[c].estimated_tokens]),
                !.holder = 0]
         /\ tasks' = [tasks EXCEPT ![c] = IdleTask]
         /\ granted' = Append(granted, [t |-> now,
                                        tokens |-> tasks[c].estimated_tokens])

\* GroqClient.chat calls self.rate_limiter.acquire(estimated_tokens); the
\* estimate grows with the prompt and can be above max_tokens_per_minute
Acquire ==
    \E c \in (1..NumCallers), est \in 1..(LimiterMaxTokens + 1) :
        /\ tasks[c].pc = "idle"
        /\ Len(granted) + Cardinality({d \in (1..NumCallers) : tasks[d].pc # "idle"}) < MaxGrants
        /\ tasks' = [tasks EXCEPT ![c].pc = "lock", ![c].estimated_tokens = est]
        /\ UNCHANGED <<clock, limiter, granted, runVars, ask, io>>

\* variant: acquire does not wait for the lock
TakeLockAnyway ==
    \E c \in (1..NumCallers) :
        /\ tasks[c].pc = "lock"
        /\ AcquireFrom(c, clock, Retained(limiter.call_times, clock),
                       Retained(limiter.token_usage, clock), FALSE)
        /\ UNCHANGED <<clock, runVars, ask, io>>

\* async with self._lock, then lines 29-33: read the clock, prune both lists
TakeLock ==
    \E c \in (1..NumCallers) :
        /\ tasks[c].pc = "lock"
        /\ limiter.holder = 0
        /\ AcquireFrom(c, clock, Retained(limiter.call_times, clock),
                       Retained(limiter.token_usage, clock), FALSE)
        /\ UNCHANGED <<clock, runVars, ask, io>>

\* lines 37-39: the sleep of the call loop ends; the call list alone is pruned
WakeInCallLoop ==
    \E c \in (1..NumCallers) :
        /\ tasks[c].pc = "sleep_calls"
        /\ clock >= tasks[c].wake_at
        /\ AcquireFrom(c, clock, Retained(limiter.call_times, clock),
                       limiter.token_usage, FALSE)
        /\ UNCHANGED <<clock, runVars, ask, io>>

\* lines 44-49: the sleep of the token loop ends; the token list alone is pruned
WakeInTokenLoop ==
    \E c \in (1..NumCallers) :
        /\ tasks[c].pc = "sleep_tokens"
        /\ clock >= tasks[c].wake_at
        /\ AcquireFrom(c, clock, limiter.call_times,
                       Retained(limiter.token_usage, clock), TRUE)
        /\ UNCHANGED <<clock, runVars, ask, io>>

\* time.time() moves on: by the second while a coroutine sleeps in acquire,
\* by the window less one second while none does
Tick ==
    \E d \in IF \E c \in 1..NumCallers : tasks[c].pc \in {"sleep_calls", "sleep_tokens"}
              THEN {SleepSeconds} ELSE {Window - 1} :
        /\ clock + d <= MaxClock
        /\ clock' = clock + d
        /\ UNCHANGED <<limiter, tasks, granted, runVars, ask, io>>

\* no coroutine has called the limiter and no call of ask_llm_json is under way
LlmIdle ==
    /\ clock = 0
    /\ limiter = RateLimiter(LimiterMaxCalls, LimiterMaxTokens)
    /\ tasks = [c \in 1..NumCallers |-> IdleTask]
    /\ granted = <<>>
    /\ ask = [pc |-> "idle"]
    /\ io = [kind |-> "idle"]

InitLimiter ==
    /\ RunIdle
    /\ LlmIdle

NextLimiter ==
    \/ Acquire
    \/ TakeLock
    \/ WakeInCallLoop
    \/ WakeInTokenLoop
    \/ Tick

SpecLimiter == InitLimiter /\ [][NextLimiter]_vars

----------------------------------------------------------------------------
(* ask_llm_json (app/llm/json_guard.py)                                     *)

\* largest max_retries argument tried
MaxAskRetries == 3

\* lines 54-58: the JSON instruction goes to the last user message, or into a
\* new user message; a message is its role, its content and, for a feedback
\* turn, the validation error it carries
EnhancedMessages(messages) ==
    IF messages # <<>> /\ messages[Len(messages)].role = "user"
    THEN [messages EXCEPT ![Len(messages)].content = "prompt + json instruction"]
    ELSE Append(messages, [role |-> "user", content |-> "json instruction", error |-> "none"])

\* the calls of ask_llm_json a stage can make
AskCalls ==
    { [pc |-> "called", max_retries |-> n, attempt |-> 0,
       enhanced_messages |-> EnhancedMessages(m), chats |-> 0, errors |-> <<>>,
       raised |-> "none"] :
        n \in 0..MaxAskRetries,
        m \in { <<>>, <<[role |-> "user", content |-> "prompt", error |-> "none"]>>,
                <<[role |-> "system", content |-> "system prompt", error |-> "none"],
                  [role |-> "user", content |-> "prompt", error |-> "none"]>>,
                <<[role |-> "system", content |-> "system prompt", error |-> "none"]>> } }

\* the for loop is entered, or over at once when max_retries is 0 (line 125)
AskEnterLoop ==
    /\ ask.pc = "called"
    /\ ask' = IF ask.max_retries > 0 THEN [ask EXCEPT !.pc = "attempt"]
              ELSE [ask EXCEPT !.pc = "raised",
                               !.raised = "Unexpected error in ask_llm_json"]
    /\ UNCHANGED <<runVars, limiterVars, io>>

\* lines 65-91: the response parses and validates
AskValidResponse ==
    /\ ask.pc = "attempt"
    /\ ask' = [ask EXCEPT !.pc = "returned", !.chats = @ + 1]
    /\ UNCHANGED <<runVars, limiterVars, io>>

\* variant: the feedback turn is appended after the last attempt too, and
\* another attempt follows
AskInvalidResponseOnceMore ==
    /\ ask.pc = "attempt"
    /\ \E e \in {"Empty response from LLM", "Invalid JSON response",
              "ValidationError"} :
        ask' = IF ask.attempt < ask.max_retries
               THEN [ask EXCEPT !.chats = @ + 1, !.errors = Append(@, e),
                                !.attempt = @ + 1,
                                !.enhanced_messages =
                                    Append(@, [role |-> "user", content |-> "validation errors", error |-> e])]
               ELSE [ask EXCEPT !.chats = @ + 1, !.errors = Append(@, e),
                                !.pc = "raised", !.raised = e]
    /\ UNCHANGED <<runVars, limiterVars, io>>

\* lines 93-120: the response is empty, is not JSON or does not validate
AskInvalidResponse ==
    /\ ask.pc = "attempt"
    /\ \E e \in {"Empty response from LLM", "Invalid JSON response",
              "ValidationError"} :
        ask' = IF ask.attempt < ask.max_retries - 1
               THEN [ask EXCEPT !.chats = @ + 1, !.errors = Append(@, e),
                                !.attempt = @ + 1,
                                !.enhanced_messages =
                                    Append(@, [role |-> "user", content |-> "validation errors", error |-> e])]
               ELSE [ask EXCEPT !.chats = @ + 1, !.errors = Append(@, e),
                                !.pc = "raised", !.raised = e]
    /\ UNCHANGED <<runVars, limiterVars, io>>

\* client.chat gave up after its own retries: its exception is none of the
\* two the except clause of line 93 catches
AskChatError ==
    /\ ask.pc = "attempt"
    /\ ask' = [ask EXCEPT !.pc = "raised", !.chats = @ + 1, !.raised = "APIError"]
    /\ UNCHANGED <<runVars, limiterVars, io>>

InitAsk ==
    /\ RunIdle
    /\ clock = 0
    /\ limiter = RateLimiter(LimiterMaxCalls, LimiterMaxTokens)
    /\ tasks = [c \in 1..NumCallers |-> IdleTask]
    /\ granted = <<>>
    /\ ask \in AskCalls
    /\ io = [kind |-> "idle"]

NextAsk ==
    \/ AskEnterLoop
    \/ AskValidResponse
    \/ AskInvalidResponse
    \/ AskChatError

SpecAsk == InitAsk /\ [][NextAsk]_vars

----------------------------------------------------------------------------
(* Awaiting code: fetch_url (app/tools/scrape.py), GroqClient.chat called   *)
(* by concurrent runs (app/llm/clients.py, app/api/server.py), and the      *)
(* fan-outs of the sourcer (scrape_urls, multi_query_search)                *)

\* largest max_retries passed to fetch_url
MaxFetchRetries == 2

\* largest retry_count passed to GroqClient.chat
MaxChatRetries == 3

\* runs started with POST /run
NumRuns == 2

\* most URLs or queries of one fan-out
MaxTargets == 6

\* scrape_urls(urls, max_concurrent=5)
ScrapeMaxConcurrent == 5

\* what is awaited, with the arguments of the call and its locals before the
\* first await
IoCalls ==
    { [kind |-> "fetch_url", max_retries |-> m, attempt |-> 0, responses |-> <<>>,
       sleeps |-> <<>>, pc |-> "request"] : m \in 0..MaxFetchRetries }
    \cup { [kind |-> "chat", retry_count |-> n, retry_delay |-> d,
            total_calls |-> 0, total_tokens |-> 0, reservations |-> 0,
            runs |-> [r \in 1..NumRuns |->
                        [pc |-> "new", attempt |-> 0, requests |-> 0,
                         sleeps |-> <<>>, result |-> "none", tokens |-> 0]],
            runs_store |-> [r \in 1..NumRuns |-> [status |-> "absent"]],
            deleted |-> [r \in 1..NumRuns |-> FALSE]] :
            n \in 0..MaxChatRetries, d \in {1, 2} }
    \cup { [kind |-> "scrape_urls", semaphore |-> ScrapeMaxConcurrent,
            targets |-> [i \in 1..n |-> "pending"]] : n \in 0..MaxTargets }
    \cup { [kind |-> "multi_query_search",
            targets |-> [i \in 1..n |-> "pending"]] : n \in 0..MaxTargets }

\* variant: a 404 is retried like a server error
FetchAttemptRetrying404 ==
    /\ io.kind = "fetch_url" /\ io.pc = "request"
    /\ \E response \in {"200 text/html", "200 application/pdf", "403", "404", "410",
                        "429", "500", "TimeoutException", "ConnectError"} :
        LET answered == [io EXCEPT !.responses = Append(@, response)]
        IN  io' = IF response = "200 text/html"
                  THEN [answered EXCEPT !.pc = "returned"]
                  ELSE IF response \in {"200 application/pdf", "403", "410"}
                  THEN [answered EXCEPT !.pc = "raised"]
                  ELSE IF io.attempt < io.max_retries
                  THEN [answered EXCEPT !.sleeps = Append(@, 2 ^ io.attempt),
                                        !.attempt = @ + 1]
                  ELSE [answered EXCEPT !.pc = "raised"]
    /\ UNCHANGED <<runVars, limiterVars, ask>>

\* one pass of the loop of fetch_url: the request, what comes back, and the
\* handler of the exception raised for it, its backoff sleep included
FetchAttempt ==
    /\ io.kind = "fetch_url" /\ io.pc = "request"
    /\ \E response \in {"200 text/html", "200 application/pdf", "403", "404", "410",
                        "429", "500", "TimeoutException", "ConnectError"} :
        LET answered == [io EXCEPT !.responses = Append(@, response)]
        IN  io' = IF response = "200 text/html"
                  THEN [answered EXCEPT !.pc = "returned"]
                  ELSE IF response \in {"200 application/pdf", "403", "404", "410"}
                  THEN [answered EXCEPT !.pc = "raised"]
                  ELSE IF io.attempt < io.max_retries
                  THEN [answered EXCEPT !.sleeps = Append(@, 2 ^ io.attempt),
                                        !.attempt = @ + 1]
                  ELSE [answered EXCEPT !.pc = "raised"]
    /\ UNCHANGED <<runVars, limiterVars, ask>>

\* POST /run: the initial state is stored under the run id and the pipeline
\* is scheduled; the run goes on to its inference call
CreateRun(r) ==
    /\ io.kind = "chat" /\ io.runs[r].pc = "new"
    /\ io' = [io EXCEPT !.runs_store[r] = [run_id |-> r, status |-> "running"],
                        !.runs[r].pc = IF io.retry_count = 0 THEN "raised"
                                       ELSE "acquire",
                        !.runs[r].result = IF io.retry_count = 0 THEN "error"
                                           ELSE "none"]
    /\ UNCHANGED <<runVars, limiterVars, ask>>

\* await self.rate_limiter.acquire(estimated_tokens) returns with the
\* reservation made, and the request goes to the thread
ChatAcquire(r) ==
    /\ io.kind = "chat" /\ io.runs[r].pc = "acquire"
    /\ io' = [io EXCEPT !.reservations = @ + 1,
                        !.runs[r].requests = @ + 1,
                        !.runs[r].pc = "thread"]
    /\ UNCHANGED <<runVars, limiterVars, ask>>

\* variant: the call counter is written back from a value read before the
\* await, so an update made by a run answered in between is overwritten
ChatRespondLosing(r) ==
    /\ io.kind = "chat" /\ io.runs[r].pc = "thread"
    /\ \E outcome \in {"usage", "no usage", "error"} :
        io' = IF outcome # "error"
              THEN [io EXCEPT !.total_calls =
                                  IF \E q \in 1..NumRuns : io.runs[q].pc = "returned"
                                  THEN @ ELSE @ + 1,
                              !.total_tokens = @ + (IF outcome = "usage" THEN 1 ELSE 0),
                              !.runs[r].pc = "returned",
                              !.runs[r].result = "response",
                              !.runs[r].tokens = IF outcome = "usage" THEN 1 ELSE 0]
              ELSE IF io.runs[r].attempt < io.retry_count - 1
              THEN [io EXCEPT !.runs[r].sleeps =
                                  Append(@, io.retry_delay * (2 ^ io.runs[r].attempt)),
                              !.runs[r].attempt = @ + 1,
                              !.runs[r].pc = "acquire"]
              ELSE [io EXCEPT !.runs[r].pc = "raised",
                              !.runs[r].result = "error"]
    /\ UNCHANGED <<runVars, limiterVars, ask>>

\* variant: every backoff sleep lasts retry_delay
ChatRespondFlatDelay(r) ==
    /\ io.kind = "chat" /\ io.runs[r].pc = "thread"
    /\ \E outcome \in {"usage", "no usage", "error"} :
        io' = IF outcome # "error"
              THEN [io EXCEPT !.total_calls = @ + 1,
                              !.total_tokens = @ + (IF outcome = "usage" THEN 1 ELSE 0),
                              !.runs[r].pc = "returned",
                              !.runs[r].result = "response",
                              !.runs[r].tokens = IF outcome = "usage" THEN 1 ELSE 0]
              ELSE IF io.runs[r].attempt < io.retry_count - 1
              THEN [io EXCEPT !.runs[r].sleeps = Append(@, io.retry_delay),
                              !.runs[r].attempt = @ + 1,
                              !.runs[r].pc = "acquire"]
              ELSE [io EXCEPT !.runs[r].pc = "raised",
                              !.runs[r].result = "error"]
    /\ UNCHANGED <<runVars, limiterVars, ask>>

\* asyncio.to_thread returns or raises: the usage is counted and the response
\* returned, or the handler sleeps and loops, or re-raises
ChatRespond(r) ==
    /\ io.kind = "chat" /\ io.runs[r].pc = "thread"
    /\ \E outcome \in {"usage", "no usage", "error"} :
        io' = IF outcome # "error"
              THEN [io EXCEPT !.total_calls = @ + 1,
                              !.total_tokens = @ + (IF outcome = "usage" THEN 1 ELSE 0),
                              !.runs[r].pc = "returned",
                              !.runs[r].result = "response",
                              !.runs[r].tokens = IF outcome = "usage" THEN 1 ELSE 0]
              ELSE IF io.runs[r].attempt < io.retry_count - 1
              THEN [io EXCEPT !.runs[r].sleeps =
                                  Append(@, io.retry_delay * (2 ^ io.runs[r].attempt)),
                              !.runs[r].attempt = @ + 1,
                              !.runs[r].pc = "acquire"]
              ELSE [io EXCEPT !.runs[r].pc = "raised",
                              !.runs[r].result = "error"]
    /\ UNCHANGED <<runVars, limiterVars, ask>>

\* GroqClient.get_usage_stats of the global client: its counters
get_usage_stats(client) ==
    [total_calls |-> client.total_calls, total_tokens |-> client.total_tokens]

\* the run ends: Finalize reads the usage of the global client into
\* run_metrics and run_in_background stores the final state under the run
\* id, or the inference call raised and the failed state is stored
RunFinish(r) ==
    /\ io.kind = "chat" /\ io.runs[r].pc \in {"returned", "raised"}
    /\ io' = [io EXCEPT !.runs_store[r] =
                            IF io.runs[r].pc = "returned"
                            THEN LET usage_stats == get_usage_stats(io)
                                 IN  [run_id |-> r, status |-> "completed",
                                      run_metrics |->
                                          [total_tokens |-> usage_stats.total_tokens,
                                           groq_calls |-> usage_stats.total_calls]]
                            ELSE [run_id |-> r, status |-> "failed"],
                        !.runs[r].pc = "done"]
    /\ UNCHANGED <<runVars, limiterVars, ask>>

\* DELETE /runs/{run_id} for a stored run: the entry is removed and the
\* success message returned (an absent run id is answered with 404)
DeleteRun(r) ==
    /\ io.kind = "chat" /\ io.runs_store[r].status # "absent"
    /\ io' = [io EXCEPT !.runs_store[r] = [status |-> "absent"],
                        !.deleted[r] = TRUE]
    /\ UNCHANGED <<runVars, limiterVars, ask>>

\* scrape_with_limit enters the semaphore and awaits scrape_url
ScrapeEnter(i) ==
    /\ io.kind = "scrape_urls" /\ i \in DOMAIN io.targets
    /\ io.targets[i] = "pending"
    /\ io.semaphore > 0
    /\ io' = [io EXCEPT !.semaphore = @ - 1, !.targets[i] = "in flight"]
    /\ UNCHANGED <<runVars, limiterVars, ask>>

\* scrape_url returns a source or None and the semaphore is released
ScrapeLeave(i) ==
    /\ io.kind = "scrape_urls" /\ i \in DOMAIN io.targets
    /\ io.targets[i] = "in flight"
    /\ io' = [io EXCEPT !.semaphore = @ + 1, !.targets[i] = "done"]
    /\ UNCHANGED <<runVars, limiterVars, ask>>

\* gather runs search(q) up to its request, sent from a thread
SearchEnter(i) ==
    /\ io.kind = "multi_query_search" /\ i \in DOMAIN io.targets
    /\ io.targets[i] = "pending"
    /\ io' = [io EXCEPT !.targets[i] = "in flight"]
    /\ UNCHANGED <<runVars, limiterVars, ask>>

\* search(q) returns its results, or raises into gather
SearchLeave(i) ==
    /\ io.kind = "multi_query_search" /\ i \in DOMAIN io.targets
    /\ io.targets[i] = "in flight"
    /\ io' = [io EXCEPT !.targets[i] = "done"]
    /\ UNCHANGED <<runVars, limiterVars, ask>>

InitIO ==
    /\ RunIdle
    /\ clock = 0
    /\ limiter = RateLimiter(LimiterMaxCalls, LimiterMaxTokens)
    /\ tasks = [c \in 1..NumCallers |-> IdleTask]
    /\ granted = <<>>
    /\ ask = [pc |-> "idle"]
    /\ io \in IoCalls

NextIO ==
    \/ FetchAttempt
    \/ \E r \in 1..NumRuns :
        \/ CreateRun(r)
        \/ ChatAcquire(r)
        \/ ChatRespond(r)
        \/ RunFinish(r)
        \/ DeleteRun(r)
    \/ \E i \in 1..MaxTargets :
        \/ ScrapeEnter(i)
        \/ ScrapeLeave(i)
        \/ SearchEnter(i)
        \/ SearchLeave(i)

SpecIO == InitIO /\ [][NextIO]_vars

----------------------------------------------------------------------------
(* One run of run_pipeline                                                  *)

\* a node ran to completion: merge its delta and follow its edge
Step(node, delta, next) ==
    /\ state' = Merge(state, delta)
    /\ executed' = Append(executed, node)
    /\ pc' = next
    /\ UNCHANGED <<ret, aborted, env, call, llmVars>>

Plan ==
    /\ pc = "plan"
    /\ Step("plan", plan_node(state, "outline"), Edge.plan)

Source ==
    /\ pc = "source"
    /\ \E results \in SearchResults(env), dead \in DeadUrls(env) :
        Step("source",
             source_node(state, harvest_sources(results, dead, SourceMaxSources,
                                                SourceMaxSearchResults)),
             Edge.source)

Index ==
    /\ pc = "index"
    /\ Step("index", index_node(state, Len(state.source_pack.sources)), Edge.index)

Summarize ==
    /\ pc = "summarize"
    /\ \E k \in 0..env.claims :
        Step("summarize", summarize_node(state, <<[claims |-> k]>>), Edge.summarize)

\* all_claims: the claims of every draft section
RECURSIVE CountClaims(_)
CountClaims(drafts) ==
    IF drafts = <<>> THEN 0
    ELSE Head(drafts).claims + CountClaims(Tail(drafts))

FactCheck ==
    /\ pc = "factcheck"
    /\ \E verdicts \in [1..CountClaims(state.draft_sections) -> RunVerdictValues] :
        Step("factcheck", factcheck_node(state, verdicts), Edge.factcheck)

Write ==
    /\ pc = "write"
    /\ \E content \in Contents(env) :
        Step("write",
             write_node(state, write_article(content, state.source_pack.sources)),
             Edge.write)

Edit ==
    /\ pc = "edit"
    /\ \E content \in Contents(env) :
        Step("edit", edit_node(state, edit_article(state.article, content)), Edge.edit)

Seo ==
    /\ pc = "seo"
    /\ Step("seo", seo_node(state, "seo"), Edge.seo)

Judge ==
    /\ pc = "judge"
    /\ Step("judge", judge_node(state),
            should_retry_check(Merge(state, judge_node(state))))

Retry ==
    /\ pc = "retry"
    /\ \E results \in SearchResults(env), dead \in DeadUrls(env) :
        Step("retry",
             retry_node(state, harvest_sources(results, dead, RetryMaxSources,
                                               RetryMaxSearchResults)),
             Edge.retry)

Finalize ==
    /\ pc = "finalize"
    /\ Step("finalize", finalize_node(state), Edge.finalize)

\* app.ainvoke returned: run_pipeline returns the final channel values
Return ==
    /\ pc = "end"
    /\ ret' = state
    /\ pc' = "returned"
    /\ UNCHANGED <<state, executed, aborted, env, call, llmVars>>

\* the caller of run_pipeline, asked to publish (request.publish in the API
\* server's background task, --publish in the CLI): it passes the final
\* state to publish_article when the state's status is "completed"
Publish ==
    /\ pc = "returned"
    /\ ret.status = "completed"
    /\ pc' = "published"
    /\ UNCHANGED <<state, ret, executed, aborted, env, call, llmVars>>

\* variant: the failed state gets no completed_at
AbortWithoutCompletedAt(kind, error) ==
    /\ ret' = Merge(create_initial_state, [status |-> "failed", error |-> error])
    /\ aborted' = kind
    /\ pc' = "returned"
    /\ UNCHANGED <<state, executed, env, call, llmVars>>

\* the except branches of run_pipeline: dict(state) is the argument of
\* run_pipeline, the state the run started from
Abort(kind, error) ==
    /\ ret' = Merge(create_initial_state,
                    [status |-> "failed", error |-> error, completed_at |-> "now"])
    /\ aborted' = kind
    /\ pc' = "returned"
    /\ UNCHANGED <<state, executed, env, call, llmVars>>

\* the nodes that await an external collaborator (LLM, search, scrape, index)
FallibleNodes ==
    {"plan", "source", "index", "summarize", "factcheck", "write", "edit",
     "seo", "retry"}

StageFails ==
    /\ pc \in FallibleNodes
    /\ Abort("error", "stage failure")

Timeout ==
    /\ pc \in Nodes \cup {"end"}
    /\ Abort("timeout", "Pipeline exceeded timeout of 600 seconds")

Init ==
    /\ env \in {SourceRichWorld, ClaimRichWorld}
    /\ pc = "plan"
    /\ state = create_initial_state
    /\ ret = NoState
    /\ executed = <<>>
    /\ aborted = "no"
    /\ call = [op |-> "none", done |-> TRUE]
    /\ LlmIdle

Next ==
    \/ Plan
    \/ Source
    \/ Index
    \/ Summarize
    \/ FactCheck
    \/ Write
    \/ Edit
    \/ Seo
    \/ Judge
    \/ Retry
    \/ Finalize
    \/ Return
    \/ Publish
    \/ StageFails
    \/ Timeout

Spec == Init /\ [][Next]_vars

----------------------------------------------------------------------------
(* Direct calls of the gate functions, as the unit tests make them          *)

\* longest verdict list passed to evaluate_quality on a direct call
MaxVerdictsArg == 2

\* metric values below, on and above each threshold in use
ProbeMetrics(readings) ==
    { [citation_coverage |-> Rat(c, 20), unsupported_claim_rate |-> Rat(u, 20),
       avg_fact_confidence |-> Rat(f, 20), reading_level |-> r,
       total_claims |-> 20, total_sources |-> 5, total_citations |-> 5] :
        c \in {0, 17, 18, 19, 20}, u \in {0, 1, 2, 3, 20},
        f \in {0, 13, 14, 15, 20}, r \in readings }

ProbeReadings == {40, 50, 65, 80, 90}

ProbeThresholds ==
    { DefaultThresholds,
      [min_citation_coverage |-> Rat(18, 20), max_unsupported_claims |-> Rat(2, 20),
       min_fact_confidence |-> Rat(13, 20)] }

\* failure reason lists of decisions built by hand, as test_should_retry_logic does
HandReasons ==
    { <<>>,
      << <<"C","i","t","a","t","i","o","n"," ","c","o","v","e","r","a","g","e"," ","b","e","l","o","w"," ","t","h","r","e","s","h","o","l","d">> >>,
      << <<"U","N","S","U","P","P","O","R","T","E","D"," ","C","L","A","I","M","S"," ","r","e","m","a","i","n">> >>,
      << <<"A","r","t","i","c","l","e"," ","i","s"," ","t","o","o"," ","s","h","o","r","t">> >>,
      << <<"A","r","t","i","c","l","e"," ","i","s"," ","t","o","o"," ","s","h","o","r","t">>,
         <<"l","o","w"," ","F","a","c","t"," ","C","o","n","f","i","d","e","n","c","e">> >> }

HandMetrics ==
    [citation_coverage |-> Rat(80, 100), unsupported_claim_rate |-> Rat(10, 100),
     avg_fact_confidence |-> Rat(60, 100), reading_level |-> 65,
     total_claims |-> 20, total_sources |-> 5, total_citations |-> 5]

HandDecisions ==
    { [passed |-> p, gate_name |-> "quality_gate", metrics |-> HandMetrics,
       failure_reasons |-> fr, recommendations |-> <<Recommendation("Add more citations", 0)>>,
       retry_count |-> rc] :
        p \in BOOLEAN, fr \in HandReasons, rc \in 0..MaxRetryArg }

VerdictLists(maxlen) ==
    UNION { [1..k -> VerdictValues] : k \in 0..maxlen }

\* the calls a test can make: the function and its arguments
PendingCalls ==
    { [op |-> "check_quality_gates", done |-> FALSE, metrics |-> m, thr |-> t] :
        m \in ProbeMetrics(ProbeReadings), t \in ProbeThresholds }
    \cup { [op |-> "evaluate_quality", done |-> FALSE, metrics |-> m,
            verdicts |-> v, retry_count |-> rc] :
        m \in ProbeMetrics({40, 65}), v \in VerdictLists(MaxVerdictsArg),
        rc \in 0..MaxRetryArg }
    \cup { [op |-> "should_retry", done |-> FALSE, decision |-> d, max_retries |-> mr] :
        d \in HandDecisions, mr \in 0..MaxRetryArg }

CallCheckQualityGates ==
    /\ call.op = "check_quality_gates" /\ ~call.done
    /\ call' = [op |-> call.op, done |-> TRUE, metrics |-> call.metrics,
                thr |-> call.thr,
                result |-> check_quality_gates(call.metrics, call.thr)]
    /\ UNCHANGED <<pc, state, ret, executed, aborted, env, llmVars>>

CallEvaluateQuality ==
    /\ call.op = "evaluate_quality" /\ ~call.done
    /\ call' = [op |-> call.op, done |-> TRUE, metrics |-> call.metrics,
                verdicts |-> call.verdicts, retry_count |-> call.retry_count,
                result |-> evaluate_quality(call.metrics, call.verdicts,
                                            call.retry_count)]
    /\ UNCHANGED <<pc, state, ret, executed, aborted, env, llmVars>>

\* should_retry on a decision built by hand, or on the decision the call of
\* evaluate_quality just returned
ShouldRetryArgs ==
    IF call.op = "should_retry" /\ ~call.done
    THEN {<<call.decision, call.max_retries, FALSE>>}
    ELSE IF call.op = "evaluate_quality" /\ call.done
    THEN {<<call.result, mr, TRUE>> : mr \in 0..MaxRetryArg}
    ELSE {}

CallShouldRetry ==
    /\ \E args \in ShouldRetryArgs :
        call' = [op |-> "should_retry", done |-> TRUE, decision |-> args[1],
                 max_retries |-> args[2], built |-> args[3],
                 result |-> should_retry(args[1], args[2])]
    /\ UNCHANGED <<pc, state, ret, executed, aborted, env, llmVars>>

InitGate ==
    /\ env = ClaimRichWorld
    /\ pc = "idle"
    /\ state = create_initial_state
    /\ ret = NoState
    /\ executed = <<>>
    /\ aborted = "no"
    /\ call \in PendingCalls
    /\ LlmIdle

NextGate ==
    \/ CallCheckQualityGates
    \/ CallEvaluateQuality
    \/ CallShouldRetry

SpecGate == InitGate /\ [][NextGate]_vars

----------------------------------------------------------------------------
(* Citation mapping (app/tools/citation.py)                                 *)
(* Offsets are Python's: text[i] is the element i + 1 of the sequence.      *)

\* the whitespace str.strip() and \s remove
Whitespace == {" ", "\n"}

\* mapping.sentence[:50]
ExcerptLen == 50

\* the first offset >= pos whose character is in S (member = TRUE) or is not
\* in S (member = FALSE), len(text) when there is none
First(text, pos, S, member) ==
    LET c == {i \in pos..(Len(text) - 1) : (text[i + 1] \in S) = member}
    IN  IF c = {} THEN Len(text) ELSE CHOOSE i \in c : \A j \in c : i <= j

\* str.strip()
Strip(s) ==
    LET keep == {i \in 1..Len(s) : s[i] \notin Whitespace}
    IN  IF keep = {} THEN <<>>
        ELSE SubSeq(s, CHOOSE i \in keep : \A j \in keep : i <= j,
                       CHOOSE i \in keep : \A j \in keep : j <= i)

\* text.index(sub, from): the first offset >= from where sub occurs, -1 when
\* Python raises ValueError
IndexFrom(text, sub, from) ==
    LET c == {i \in from..(Len(text) - Len(sub)) :
                SubSeq(text, i + 1, i + Len(sub)) = sub}
    IN  IF c = {} THEN -1 ELSE CHOOSE i \in c : \A j \in c : i <= j

\* int(num.strip()) of a run of decimal digits
RECURSIVE DigitsToNat(_)
DigitsToNat(ds) ==
    IF ds = <<>> THEN 0
    ELSE 10 * DigitsToNat(SubSeq(ds, 1, Len(ds) - 1))
         + ((CHOOSE i \in 1..10 : DigitChars[i] = ds[Len(ds)]) - 1)

\* the rest of a marker after a number, (?:\s*,\s*\d+)*\] , read at offset pos
\* with the ids read so far; ok = FALSE when the pattern does not match
RECURSIVE MarkerTail(_, _, _)
MarkerTail(text, pos, ids) ==
    LET comma == First(text, pos, Whitespace, FALSE)
        num == First(text, comma + 1, Whitespace, FALSE)
        stop == First(text, num, {DigitChars[i] : i \in 1..10}, FALSE)
    IN  IF /\ comma < Len(text) /\ text[comma + 1] = ","
           /\ num < Len(text) /\ stop > num
        THEN MarkerTail(text, stop,
                        Append(ids, DigitsToNat(SubSeq(text, num + 1, stop))))
        ELSE IF pos < Len(text) /\ text[pos + 1] = "]"
        THEN [ok |-> TRUE, ids |-> ids, end |-> pos + 1]
        ELSE [ok |-> FALSE, ids |-> <<>>, end |-> pos]

\* re.finditer(r'\[(\d+(?:\s*,\s*\d+)*)\]', text) from offset pos on
RECURSIVE MarkersFrom(_, _)
MarkersFrom(text, pos) ==
    LET open == First(text, pos, {"["}, TRUE)
        stop == First(text, open + 1, {DigitChars[i] : i \in 1..10}, FALSE)
        m == IF stop > open + 1
             THEN MarkerTail(text, stop,
                             <<DigitsToNat(SubSeq(text, open + 2, stop))>>)
             ELSE [ok |-> FALSE, ids |-> <<>>, end |-> open]
    IN  IF open >= Len(text) THEN <<>>
        ELSE IF m.ok
        THEN <<[position |-> open, citation_ids |-> m.ids]>> \o MarkersFrom(text, m.end)
        ELSE MarkersFrom(text, open + 1)

extract_citation_markers(text) ==
    MarkersFrom(text, 0)

\* the for loop over re.finditer(r'([^.!?]+[.!?]+)', text) and the remaining
\* text after it: pos is where the scan resumes, last_end the end of the last
\* sentence recorded
RECURSIVE SentencesFrom(_, _, _)
SentencesFrom(text, pos, last_end) ==
    LET first == First(text, pos, {".", "!", "?"}, FALSE)
        punct == First(text, first, {".", "!", "?"}, TRUE)
        stop == First(text, punct, {".", "!", "?"}, FALSE)
        sentence == Strip(SubSeq(text, first + 1, stop))
        start == IndexFrom(text, sentence, last_end)
        end == start + Len(sentence)
        remaining == Strip(SubSeq(text, last_end + 1, Len(text)))
    IN  IF first < Len(text) /\ punct < Len(text)
        THEN <<[sentence |-> sentence, start_char |-> start, end_char |-> end]>>
             \o SentencesFrom(text, stop, end)
        ELSE IF last_end < Len(text) /\ remaining # <<>>
        THEN <<[sentence |-> remaining, start_char |-> last_end,
                end_char |-> Len(text)]>>
        ELSE <<>>

split_into_sentences(text) ==
    SentencesFrom(text, 0, 0)

CommonTag == <<"[","C","O","M","M","O","N","]">>

\* str.replace(old, '')
RECURSIVE Remove(_, _)
Remove(s, old) ==
    LET at == IndexFrom(s, old, 0)
    IN  IF at < 0 THEN s
        ELSE SubSeq(s, 1, at) \o Remove(SubSeq(s, at + Len(old) + 1, Len(s)), old)

\* sorted(S)
RECURSIVE Sorted(_)
Sorted(S) ==
    IF S = {} THEN <<>>
    ELSE LET least == CHOOSE x \in S : \A y \in S : x <= y
         IN  <<least>> \o Sorted(S \ {least})

\* the body of the loop over sentences: one SentenceCitation
SentenceMapping(text, s, common_knowledge_phrases) ==
    LET markers == extract_citation_markers(SubSeq(text, s.start_char + 1, s.end_char))
        citation_ids ==
            Sorted(UNION {{markers[k].citation_ids[j] :
                            j \in 1..Len(markers[k].citation_ids)} :
                          k \in 1..Len(markers)})
        by_phrase == \E i \in 1..Len(common_knowledge_phrases) :
                        Contains(Lower(s.sentence), Lower(common_knowledge_phrases[i]))
        tagged == Contains(s.sentence, CommonTag)
    IN  [sentence |-> IF tagged THEN Strip(Remove(s.sentence, CommonTag))
                      ELSE s.sentence,
         start_char |-> s.start_char,
         end_char |-> s.end_char,
         citation_ids |-> citation_ids,
         is_common_knowledge |-> by_phrase \/ tagged]

\* variant: only sentences with a citation id count as cited
CitedCountIdsOnly(mappings) ==
    Len(SelectSeq(mappings, LAMBDA m : m.citation_ids # <<>>))

\* cited_count: sentences with a citation id or the common-knowledge flag
CitedCount(mappings) ==
    Len(SelectSeq(mappings,
                  LAMBDA m : m.citation_ids # <<>> \/ m.is_common_knowledge))

\* variant: citation ids count the sources from 0
BibliographyFromZero(sources) ==
    [i \in 1..Len(sources) |->
        [citation_id |-> i - 1, source_id |-> sources[i].source_id]]

\* for i, source in enumerate(sources, 1)
Bibliography(sources) ==
    [i \in 1..Len(sources) |->
        [citation_id |-> i, source_id |-> sources[i].source_id]]

create_citation_map(text, sources, common_knowledge_phrases) ==
    LET sentences == split_into_sentences(text)
        sentence_mappings ==
            [i \in 1..Len(sentences) |->
                SentenceMapping(text, sentences[i], common_knowledge_phrases)]
        total_sentences == Len(sentences)
    IN  [bibliography |-> Bibliography(sources),
         sentence_mappings |-> sentence_mappings,
         coverage_rate |-> IF total_sentences > 0
                           THEN Rat(CitedCount(sentence_mappings), total_sentences)
                           ELSE Zero]

\* an issue string: its fixed wording, the number formatted into it and the
\* sentence excerpt that follows
Issue(text, n, excerpt) ==
    [text |-> text, n |-> n, excerpt |-> excerpt]

\* variant: a sentence gets an issue for its first invalid id only
InvalidIdIssuesFirstOnly(mapping, valid_ids) ==
    LET bad == SelectSeq(mapping.citation_ids, LAMBDA c : c \notin valid_ids)
    IN  IF bad = <<>> THEN <<>>
        ELSE <<Issue("Invalid citation ID", Head(bad),
                     SubSeq(mapping.sentence, 1,
                            IF Len(mapping.sentence) < ExcerptLen
                            THEN Len(mapping.sentence) ELSE ExcerptLen))>>

\* the inner loop of validate_citations over mapping.citation_ids
InvalidIdIssues(mapping, valid_ids) ==
    LET bad == SelectSeq(mapping.citation_ids, LAMBDA c : c \notin valid_ids)
    IN  [k \in 1..Len(bad) |->
            Issue("Invalid citation ID", bad[k],
                  SubSeq(mapping.sentence, 1,
                         IF Len(mapping.sentence) < ExcerptLen
                         THEN Len(mapping.sentence) ELSE ExcerptLen))]

\* the outer loop over citation_map.sentence_mappings
RECURSIVE InvalidIssues(_, _)
InvalidIssues(mappings, valid_ids) ==
    IF mappings = <<>> THEN <<>>
    ELSE InvalidIdIssues(Head(mappings), valid_ids)
         \o InvalidIssues(Tail(mappings), valid_ids)

\* variant: one issue per uncited sentence
validate_citations_per_sentence(citation_map) ==
    LET valid_ids == {citation_map.bibliography[i].citation_id :
                        i \in 1..Len(citation_map.bibliography)}
        uncited == SelectSeq(citation_map.sentence_mappings,
                             LAMBDA m : m.citation_ids = <<>> /\ ~m.is_common_knowledge)
    IN  InvalidIssues(citation_map.sentence_mappings, valid_ids)
        \o [i \in 1..Len(uncited) |->
                Issue("sentences lack citations and are not marked as common knowledge",
                      1, <<>>)]

\* variant: a sentence without citation ids is uncited even when it is
\* marked as common knowledge
validate_citations_ignores_common(citation_map) ==
    LET valid_ids == {citation_map.bibliography[i].citation_id :
                        i \in 1..Len(citation_map.bibliography)}
        uncited == SelectSeq(citation_map.sentence_mappings,
                             LAMBDA m : m.citation_ids = <<>>)
    IN  InvalidIssues(citation_map.sentence_mappings, valid_ids)
        \o (IF uncited # <<>>
            THEN <<Issue("sentences lack citations and are not marked as common knowledge",
                         Len(uncited), <<>>)>>
            ELSE <<>>)

validate_citations(citation_map) ==
    LET valid_ids == {citation_map.bibliography[i].citation_id :
                        i \in 1..Len(citation_map.bibliography)}
        uncited == SelectSeq(citation_map.sentence_mappings,
                             LAMBDA m : m.citation_ids = <<>> /\ ~m.is_common_knowledge)
    IN  InvalidIssues(citation_map.sentence_mappings, valid_ids)
        \o (IF uncited # <<>>
            THEN <<Issue("sentences lack citations and are not marked as common knowledge",
                         Len(uncited), <<>>)>>
            ELSE <<>>)

----------------------------------------------------------------------------
(* Direct calls of the citation functions, as tests/test_citations.py makes *)
(* them                                                                     *)

\* pieces a generated text is put together from
MaxPieces == 3

\* sources passed to create_citation_map
MaxCiteSources == 2

\* the texts of at most k pieces: a word, a blank, a full stop, markers and
\* the common-knowledge tag
RECURSIVE TextsOf(_)
TextsOf(k) ==
    IF k = 0 THEN {<<>>}
    ELSE LET shorter == TextsOf(k - 1)
             pieces == { <<"A">>, <<" ">>, <<".">>, <<"[","1","]">>,
                         <<"[","9","9","]">>, <<"[","2",","," ","1","]">>,
                         CommonTag }
         IN  shorter \cup {t \o p : t \in shorter, p \in pieces}

\* texts written out by hand, among them the ones of the tests
HandTexts ==
    { <<"C","i","t","e","d"," ","[","1","]","."," ","B","a","d"," ","[","9","9","]",".">>,
      <<"F","a","c","t"," ","[","1","]","."," ","I","n","v","a","l","i","d"," ","[","9","9","]","[","9","9","]",".">>,
      <<"O","n","e"," ","[","1","]",".","\n","N","o","n","e",".","\n","S","k","y"," ","[","C","O","M","M","O","N","]",".">>,
      <<"!","."," ",".">>,
      <<"N","o"," ","e","n","d"," ","[","2","]">>,
      <<"P","i"," ","i","s"," ","3",".","5","."," ","S","e","e"," ","v","1",".","2","!">>,
      <<"F","i","r","s","t","."," ","S","e","c","o","n","d","!"," ","T","h","i","r","d","?"," ","F","o","u","r","t","h",".">>,
      <<"A"," ","[","1"," ",","," ","2","]","?","!"," ","B"," ","[","1",",","]",".">> }

\* the calls a test can make; the sources are sample sources in the style of
\* tests/conftest.py, the third repeating the source id of the first
CitationCalls ==
    LET sample_sources == <<[source_id |-> 1], [source_id |-> 2],
                            [source_id |-> 1], [source_id |-> 3]>>
    IN  { [op |-> "create_citation_map", done |-> FALSE, text |-> t,
           sources |-> SubSeq(sample_sources, 1, n), phrases |-> ph] :
            t \in TextsOf(MaxPieces) \cup HandTexts, n \in 0..MaxCiteSources,
            ph \in { <<>>, << <<"a">> >> } }
        \cup { [op |-> "split_into_sentences", done |-> FALSE, text |-> t] :
                t \in TextsOf(MaxPieces) \cup HandTexts }

CallCreateCitationMap ==
    /\ call.op = "create_citation_map" /\ ~call.done
    /\ call' = [op |-> call.op, done |-> TRUE, text |-> call.text,
                sources |-> call.sources, phrases |-> call.phrases,
                result |-> create_citation_map(call.text, call.sources, call.phrases)]
    /\ UNCHANGED <<pc, state, ret, executed, aborted, env, llmVars>>

CallSplitIntoSentences ==
    /\ call.op = "split_into_sentences" /\ ~call.done
    /\ call' = [op |-> call.op, done |-> TRUE, text |-> call.text,
                result |-> split_into_sentences(call.text)]
    /\ UNCHANGED <<pc, state, ret, executed, aborted, env, llmVars>>

\* validate_citations on the map the call of create_citation_map returned
CallValidateCitations ==
    /\ call.op = "create_citation_map" /\ call.done
    /\ call' = [op |-> "validate_citations", done |-> TRUE, text |-> call.text,
                sources |-> call.sources, phrases |-> call.phrases,
                citation_map |-> call.result,
                result |-> validate_citations(call.result)]
    /\ UNCHANGED <<pc, state, ret, executed, aborted, env, llmVars>>

\* judge_node on a run state whose article carries the validated map
CallJudgeNode ==
    /\ call.op = "validate_citations" /\ call.done
    /\ \E verdicts \in { <<>>, <<[verdict |-> "supported", confidence |-> Rat(9, 10)]>> },
          retry_count \in {0, JudgeMaxRetries} :
        LET s == [article |-> [content |-> [sentences |-> Len(call.citation_map.sentence_mappings),
                                            cited |-> CitedCount(call.citation_map.sentence_mappings),
                                            reading |-> 65],
                               citations |-> call.citation_map,
                               reading_level |-> 65],
                  verdicts |-> verdicts,
                  source_pack |-> [sources |-> call.sources],
                  retry_count |-> retry_count,
                  logs |-> <<>>]
        IN  call' = [op |-> "judge_node", done |-> TRUE,
                     citation_map |-> call.citation_map, issues |-> call.result,
                     verdicts |-> verdicts, retry_count |-> retry_count,
                     result |-> judge_node(s)]
    /\ UNCHANGED <<pc, state, ret, executed, aborted, env, llmVars>>

InitCite ==
    /\ env = ClaimRichWorld
    /\ pc = "idle"
    /\ state = create_initial_state
    /\ ret = NoState
    /\ executed = <<>>
    /\ aborted = "no"
    /\ call \in CitationCalls
    /\ LlmIdle

NextCite ==
    \/ CallCreateCitationMap
    \/ CallValidateCitations
    \/ CallSplitIntoSentences
    \/ CallJudgeNode

SpecCite == InitCite /\ [][NextCite]_vars

----------------------------------------------------------------------------
(* Properties                                                               *)

RECURSIVE Count(_, _)
Count(seq, x) ==
    IF seq = <<>> THEN 0
    ELSE (IF Head(seq) = x THEN 1 ELSE 0) + Count(Tail(seq), x)

Last(seq) ==
    seq[Len(seq)]

\* the router has sent the run to finalize
ReachedFinalize ==
    pc = "finalize" \/ Count(executed, "finalize") > 0

\* C1: with max_retries = 2, a run whose every Judge evaluation fails the gate
\* goes through Retry exactly twice and its third Judge evaluation routes to
\* Finalize (a passing evaluation ends the loop, so every evaluation failed
\* iff the last one did)
C1_AllFailuresRetryTwice ==
    (ReachedFinalize /\ ~state.gate_decision.passed)
        => (Count(executed, "retry") = 2 /\ Count(executed, "judge") = 3)

\* C2: every failing decision the Judge builds is retry-eligible while
\* retry_count < max_retries, whichever thresholds were violated
C2_EveryFailureRetryEligible ==
    (executed # <<>> /\ Last(executed) = "judge"
     /\ ~state.gate_decision.passed
     /\ state.gate_decision.retry_count < JudgeMaxRetries)
        => state.should_retry

\* C3: a run that finalized with a failing gate decision returns status
\* completed_with_warnings, and status completed only with a passing decision
C3_FailedGateEndsWithWarnings ==
    (pc = "returned" /\ aborted = "no")
        => ret.status = (IF ret.gate_decision.passed THEN "completed"
                         ELSE "completed_with_warnings")

C4_GenericTexts ==
    {"Add citations to uncited sentences or mark them as common knowledge",
     "Find additional sources for unsupported claims or remove them",
     "Strengthen claims with better evidence or use more authoritative sources"}

\* C4: the gate passes iff coverage >= min and unsupported rate <= max and
\* confidence >= min; the failure reasons and the generic recommendations each
\* number the violated thresholds; passed iff there is no failure reason
C4_GateRule ==
    (call.op = "check_quality_gates" /\ call.done) =>
        LET m == call.metrics
            t == call.thr
            r == call.result
            covOk == RatLe(t.min_citation_coverage, m.citation_coverage)
            unsOk == RatLe(m.unsupported_claim_rate, t.max_unsupported_claims)
            cnfOk == RatLe(t.min_fact_confidence, m.avg_fact_confidence)
            violated == (IF covOk THEN 0 ELSE 1) + (IF unsOk THEN 0 ELSE 1)
                        + (IF cnfOk THEN 0 ELSE 1)
            generic == {i \in 1..Len(r.recommendations) :
                            r.recommendations[i].text \in C4_GenericTexts}
        IN  /\ r.passed = (covOk /\ unsOk /\ cnfOk)
            /\ Len(r.failures) = violated
            /\ Cardinality(generic) = violated
            /\ r.passed = (r.failures = <<>>)

\* C4 witness: every metric exactly on its threshold, and the gate passed
C4_Witness ==
    /\ call.op = "check_quality_gates" /\ call.done
    /\ call.metrics.citation_coverage = call.thr.min_citation_coverage
    /\ call.metrics.unsupported_claim_rate = call.thr.max_unsupported_claims
    /\ call.metrics.avg_fact_confidence = call.thr.min_fact_confidence
    /\ call.result.passed

C5_Keywords ==
    { <<"c","i","t","a","t","i","o","n"," ","c","o","v","e","r","a","g","e">>,
      <<"u","n","s","u","p","p","o","r","t","e","d"," ","c","l","a","i","m","s">>,
      <<"f","a","c","t"," ","c","o","n","f","i","d","e","n","c","e">> }

\* C5: should_retry is false for a passed decision, false once
\* retry_count >= max_retries, and otherwise true iff some failure reason
\* contains one of the three keywords, case-insensitively
C5_ShouldRetryRule ==
    (call.op = "should_retry" /\ call.done) =>
        LET d == call.decision
            matches == \E i \in 1..Len(d.failure_reasons) :
                           \E kw \in C5_Keywords :
                               Contains(Lower(d.failure_reasons[i]), kw)
        IN  call.result = (~d.passed /\ d.retry_count < call.max_retries /\ matches)

\* C5 witness: the failing coverage-type decision of the test at
\* retry_count = 2, max_retries = 2 is refused
C5_Witness ==
    /\ call.op = "should_retry" /\ call.done
    /\ ~call.decision.passed
    /\ Len(call.decision.failure_reasons) = 1
    /\ Contains(Lower(call.decision.failure_reasons[1]),
                <<"c","i","t","a","t","i","o","n"," ","c","o","v","e","r","a","g","e">>)
    /\ call.decision.retry_count = 2
    /\ call.max_retries = 2
    /\ call.result = FALSE

\* C6: a run aborted by a stage failure or by the timeout returns status
\* failed with the error and completed_at set, and no stage runs once the run
\* is aborted
C6_AbortReturnsFailed ==
    /\ [](aborted # "no" =>
            /\ pc = "returned"
            /\ ret.status = "failed"
            /\ Has(ret, "completed_at")
            /\ ret.error = (IF aborted = "timeout"
                            THEN "Pipeline exceeded timeout of 600 seconds"
                            ELSE "stage failure"))
    /\ [][aborted' # "no" => executed' = executed]_vars

\* C6 witness: a stage of a retry iteration failed and the run returned
C6_Witness ==
    /\ pc = "returned"
    /\ aborted = "error"
    /\ Count(executed, "retry") = 1
    /\ ret.status = "failed"

C8_Successors ==
    { <<"plan", "source">>, <<"source", "index">>, <<"index", "summarize">>,
      <<"summarize", "factcheck">>, <<"factcheck", "write">>, <<"write", "edit">>,
      <<"edit", "seo">>, <<"seo", "judge">>, <<"judge", "retry">>,
      <<"judge", "finalize">>, <<"retry", "index">> }

\* C8: stages run in the fixed order Plan .. Judge, the only cycle is
\* Judge -> Retry -> Index, Plan and Source run once, every Judge follows a
\* complete Index .. Seo pass, and Finalize runs at most once, as the last
C8_FixedOrder ==
    /\ executed # <<>> => executed[1] = "plan"
    /\ \A i \in 1..(Len(executed) - 1) :
            <<executed[i], executed[i + 1]>> \in C8_Successors
    /\ (pc \in Nodes /\ executed # <<>>) => <<Last(executed), pc>> \in C8_Successors
    /\ Count(executed, "plan") <= 1
    /\ Count(executed, "source") <= 1
    /\ Count(executed, "finalize") <= 1
    /\ \A i \in 1..Len(executed) :
            /\ executed[i] = "finalize" => i = Len(executed)
            /\ executed[i] = "judge" =>
                  /\ i >= 7
                  /\ SubSeq(executed, i - 6, i - 1)
                        = <<"index", "summarize", "factcheck", "write", "edit", "seo">>
    /\ (pc = "returned" /\ aborted = "no") =>
            /\ Count(executed, "plan") = 1
            /\ Count(executed, "source") = 1
            /\ Last(executed) = "finalize"

\* C8 witness: a run that went through the retry cycle twice and returned
C8_Witness ==
    /\ pc = "returned"
    /\ aborted = "no"
    /\ Count(executed, "retry") = 2
    /\ Count(executed, "judge") = 3

\* C9: a Retry appends at most 5 sources behind the existing source list,
\* keeps every existing entry in place, adds 1 to retry_count and leaves
\* should_retry false
C9_RetryAppends ==
    [][executed' = Append(executed, "retry") =>
        LET old == state.source_pack.sources
            new == state'.source_pack.sources
        IN  /\ Len(new) >= Len(old)
            /\ Len(new) - Len(old) <= 5
            /\ SubSeq(new, 1, Len(old)) = old
            /\ state'.retry_count = state.retry_count + 1
            /\ state'.should_retry = FALSE]_vars

\* C9 witness: a Retry found more than 5 candidates and appended 5 of them
\* to a non-empty source list
C9_Witness ==
    /\ executed # <<>>
    /\ Last(executed) = "retry"
    /\ Last(state.logs).n = 5
    /\ Len(state.source_pack.sources) > 5
    /\ state.retry_count = 1

\* C10: the source list of a run never holds two entries with the same
\* source_id, whatever the number of Retry executions
C10_NoDuplicateSources ==
    Has(state, "source_pack") =>
        \A i, j \in 1..Len(state.source_pack.sources) :
            i # j => state.source_pack.sources[i].source_id
                        # state.source_pack.sources[j].source_id

\* a call of create_citation_map has returned
Created ==
    call.op = "create_citation_map" /\ call.done

\* a call of validate_citations on a created map has returned
Validated ==
    call.op = "validate_citations" /\ call.done

CoveredSentences(citation_map) ==
    {i \in 1..Len(citation_map.sentence_mappings) :
        \/ citation_map.sentence_mappings[i].citation_ids # <<>>
        \/ citation_map.sentence_mappings[i].is_common_knowledge}

\* C12: coverage_rate is covered sentences / sentences, within [0, 1]; it is
\* 1 when there are sentences and all are covered, and 0 without sentences
C12_CoverageIsCoveredShare ==
    Created =>
        LET m == call.result
            total == Len(m.sentence_mappings)
            covered == Cardinality(CoveredSentences(m))
        IN  /\ total > 0 => m.coverage_rate = Rat(covered, total)
            /\ RatLe(Zero, m.coverage_rate) /\ RatLe(m.coverage_rate, One)
            /\ (total > 0 /\ covered = total) => m.coverage_rate = One
            /\ total = 0 => m.coverage_rate = Zero
            /\ call.text = <<>> => (total = 0 /\ m.coverage_rate = Zero)

\* a map with a sentence covered by the common-knowledge flag alone, a
\* sentence covered by a citation and an uncovered sentence
C12_Witness ==
    /\ Created
    /\ Len(call.result.sentence_mappings) = 3
    /\ call.result.coverage_rate = Rat(2, 3)
    /\ \E i \in 1..3 :
        /\ call.result.sentence_mappings[i].citation_ids = <<>>
        /\ call.result.sentence_mappings[i].is_common_knowledge

\* the issues of a validation that report an invalid citation id
InvalidIdReports(issues) ==
    SelectSeq(issues, LAMBDA x : x.text = "Invalid citation ID")

\* the sentences of a map that reference the citation id c
Referencing(citation_map, c) ==
    {i \in 1..Len(citation_map.sentence_mappings) :
        \E j \in 1..Len(citation_map.sentence_mappings[i].citation_ids) :
            citation_map.sentence_mappings[i].citation_ids[j] = c}

ReferencedIds(citation_map) ==
    UNION {{citation_map.sentence_mappings[i].citation_ids[j] :
                j \in 1..Len(citation_map.sentence_mappings[i].citation_ids)} :
            i \in 1..Len(citation_map.sentence_mappings)}

BibliographyIds(citation_map) ==
    {citation_map.bibliography[i].citation_id :
        i \in 1..Len(citation_map.bibliography)}

TestTextBad99 ==
    <<"C","i","t","e","d"," ","[","1","]","."," ","B","a","d"," ","[","9","9","]",".">>

\* C13: validate_citations reports one invalid-id issue per (sentence, id)
\* pair whose id is not in the bibliography, naming the id, and none for ids
\* in the bibliography; "Cited [1]. Bad [99]." with one source gives exactly
\* one such issue, naming 99
C13_OneIssuePerInvalidReference ==
    Validated =>
        LET m == call.citation_map
            reports == InvalidIdReports(call.result)
        IN  /\ \A c \in ReferencedIds(m) :
                Len(SelectSeq(reports, LAMBDA x : x.n = c))
                    = IF c \in BibliographyIds(m) THEN 0
                      ELSE Cardinality(Referencing(m, c))
            /\ \A k \in 1..Len(reports) :
                /\ reports[k].n \in ReferencedIds(m) \ BibliographyIds(m)
                /\ Len(reports[k].excerpt) <= ExcerptLen
                /\ \E i \in Referencing(m, reports[k].n) :
                    /\ Len(reports[k].excerpt) <= Len(m.sentence_mappings[i].sentence)
                    /\ reports[k].excerpt
                            = SubSeq(m.sentence_mappings[i].sentence, 1,
                                     Len(reports[k].excerpt))
            /\ (call.text = TestTextBad99 /\ Len(call.sources) = 1)
                    => (Len(reports) = 1 /\ reports[1].n = 99)

\* the validation of "Cited [1]. Bad [99]." with exactly one source
C13_Witness ==
    /\ Validated
    /\ call.text = TestTextBad99
    /\ Len(call.sources) = 1
    /\ InvalidIdReports(call.result) # <<>>

\* the issues of a validation that report uncited sentences
UncitedReports(issues) ==
    SelectSeq(issues, LAMBDA x :
        x.text = "sentences lack citations and are not marked as common knowledge")

\* C14: sentences with neither a citation id nor the common-knowledge flag
\* are reported by one aggregate issue carrying their count, and by none when
\* there is no such sentence; the issue list is empty iff every referenced id
\* is in the bibliography and no sentence is uncited
C14_UncitedReportedOnce ==
    Validated =>
        LET m == call.citation_map
            uncited == (1..Len(m.sentence_mappings)) \ CoveredSentences(m)
            reports == UncitedReports(call.result)
        IN  /\ uncited = {} => reports = <<>>
            /\ uncited # {} => (Len(reports) = 1 /\ reports[1].n = Cardinality(uncited))
            /\ call.result = <<>>
                <=> (ReferencedIds(m) \subseteq BibliographyIds(m) /\ uncited = {})

\* a validation of a map with two uncited sentences or more
C14_Witness ==
    /\ Validated
    /\ Cardinality((1..Len(call.citation_map.sentence_mappings))
                   \ CoveredSentences(call.citation_map)) >= 2
    /\ UncitedReports(call.result) # <<>>

\* the grants whose timestamp lies in the 60 seconds that end with grant i
GrantsInWindow(i) ==
    {j \in 1..Len(granted) :
        /\ granted[i].t - Window < granted[j].t
        /\ granted[j].t <= granted[i].t}

\* C16: with max_calls_per_minute = K, the (K+1)-th acquisition after any
\* acquisition returns 60 seconds or more after it, so that no 60 seconds hold
\* more than K acquisitions
C16_CallBudgetPerWindow ==
    /\ \A i \in 1..Len(granted) :
        i > limiter.max_calls
            => granted[i].t >= granted[i - limiter.max_calls].t + Window
    /\ \A i \in 1..Len(granted) :
        Cardinality(GrantsInWindow(i)) <= limiter.max_calls

\* K acquisitions at one moment and the next one exactly 60 seconds later
C16_Witness ==
    /\ Len(granted) > limiter.max_calls
    /\ granted[limiter.max_calls + 1].t = granted[1].t + Window
    /\ granted[limiter.max_calls].t = granted[1].t

RECURSIVE SumOver(_, _)
SumOver(S, f) ==
    IF S = {} THEN 0
    ELSE LET x == CHOOSE y \in S : TRUE
         IN  f[x] + SumOver(S \ {x}, f)

\* C17: a reservation is made only with headroom in both budgets, no two
\* coroutines are between the check and the reservation at once, and neither
\* the calls nor the tokens granted within 60 seconds exceed their budget
C17_BothBudgetsUnderInterleaving ==
    /\ Len(limiter.call_times) <= limiter.max_calls
    /\ SumTokens(limiter.token_usage) <= limiter.max_tokens
    /\ \A c, d \in 1..NumCallers :
        (tasks[c].pc \in {"sleep_calls", "sleep_tokens"}
         /\ tasks[d].pc \in {"sleep_calls", "sleep_tokens"}) => c = d
    /\ \A c \in 1..NumCallers :
        tasks[c].pc \in {"sleep_calls", "sleep_tokens"} => limiter.holder = c
    /\ \A i \in 1..Len(granted) :
        /\ Cardinality(GrantsInWindow(i)) <= limiter.max_calls
        /\ SumOver(GrantsInWindow(i), [j \in 1..Len(granted) |-> granted[j].tokens])
                <= limiter.max_tokens

\* one coroutine sleeps in the token loop, holding the lock, while another
\* waits for the lock
C17_Witness ==
    \E c, d \in 1..NumCallers :
        /\ tasks[c].pc = "sleep_tokens"
        /\ tasks[d].pc = "lock"
        /\ granted # <<>>

\* the validation errors the feedback turns of a conversation carry, in order
FeedbackErrors(messages) ==
    LET turns == SelectSeq(messages, LAMBDA m : m.content = "validation errors")
    IN  [k \in 1..Len(turns) |-> turns[k].error]

\* C18: ask_llm_json makes at most max_retries attempts, returns at the first
\* valid response, has appended one feedback turn carrying the error of every
\* failed attempt but the max_retries-th, and raises the error of the
\* max_retries-th failed attempt without another attempt
C18_BoundedValidateRetry ==
    /\ [](ask.pc \in {"attempt", "returned", "raised"} =>
            /\ ask.chats <= ask.max_retries
            /\ ask.pc = "attempt" =>
                /\ ask.chats = Len(ask.errors)
                /\ ask.chats < ask.max_retries
                /\ FeedbackErrors(ask.enhanced_messages) = ask.errors
            /\ ask.pc = "returned" =>
                /\ ask.chats = Len(ask.errors) + 1
                /\ FeedbackErrors(ask.enhanced_messages) = ask.errors
            /\ (ask.pc = "raised" /\ ask.raised \notin {"APIError", "Unexpected error in ask_llm_json"}) =>
                /\ ask.chats = ask.max_retries
                /\ Len(ask.errors) = ask.max_retries
                /\ ask.raised = ask.errors[Len(ask.errors)]
                /\ FeedbackErrors(ask.enhanced_messages)
                        = SubSeq(ask.errors, 1, Len(ask.errors) - 1))
    /\ [][ask.pc \in {"returned", "raised"} => ask' = ask]_vars

\* three failed attempts of three: two feedback turns, the third error raised
C18_Witness ==
    /\ ask.pc = "raised"
    /\ ask.max_retries = 3
    /\ Len(ask.errors) = 3
    /\ ask.raised = ask.errors[3]
    /\ Len(FeedbackErrors(ask.enhanced_messages)) = 2

\* C19: the state passed to a stage, its source pack and article included, is
\* the same when the stage returns
C19_StagesLeaveInputUnchanged ==
    [][\A node \in Nodes :
        executed' = Append(executed, node)
            => StateAfterNode(node, state, state') = state]_vars

\* C20: every executed stage, re-executed ones included, leaves the log it
\* found as a prefix of the log and adds exactly one entry
C20_LogAppendOnly ==
    [][\A node \in Nodes :
        executed' = Append(executed, node)
            => /\ Len(GetLogs(state')) = Len(GetLogs(state)) + 1
               /\ SubSeq(GetLogs(state'), 1, Len(GetLogs(state))) = GetLogs(state)]_vars

\* a run in its second iteration: index ran twice, every stage logged once
C20_Witness ==
    /\ Count(executed, "retry") >= 1
    /\ Count(executed, "index") >= 2
    /\ Len(GetLogs(state)) = Len(executed)
    /\ Len(executed) >= 12

\* C21: when Summarize or FactCheck runs again in a retry iteration, the draft
\* sections and verdicts of the earlier iterations are still in the run state,
\* followed by the new ones
C21_ListResultsAccumulate ==
    [][/\ (executed' = Append(executed, "summarize") /\ Has(state, "draft_sections"))
            => /\ Len(state'.draft_sections) > Len(state.draft_sections)
               /\ SubSeq(state'.draft_sections, 1, Len(state.draft_sections))
                    = state.draft_sections
       /\ (executed' = Append(executed, "factcheck") /\ Has(state, "verdicts"))
            => /\ Len(state'.verdicts)
                    = Len(state.verdicts) + CountClaims(state.draft_sections)
               /\ SubSeq(state'.verdicts, 1, Len(state.verdicts)) = state.verdicts]_vars

\* the recommendations of a gate result that are about the reading level
ReadingAdvice(recommendations) ==
    { i \in 1..Len(recommendations) :
        recommendations[i].text \in {"Reading level is difficult",
                                     "Reading level may be too simple"} }

\* C22: the reading level never changes the gate outcome: the same metrics with
\* any other reading level give the same passed flag and the same failure
\* reasons; the result carries exactly one reading-level recommendation when
\* the reading level is below 50 or above 80 and none when it is within [50, 80]
C22_ReadingLevelAdvisoryOnly ==
    (call.op = "check_quality_gates" /\ call.done) =>
        /\ \A r \in ProbeReadings :
            LET other == check_quality_gates([call.metrics EXCEPT !.reading_level = r],
                                             call.thr)
            IN  /\ other.passed = call.result.passed
                /\ other.failures = call.result.failures
        /\ Cardinality(ReadingAdvice(call.result.recommendations))
             = (IF call.metrics.reading_level < 50 \/ call.metrics.reading_level > 80
                THEN 1 ELSE 0)

C22_Witness ==
    /\ call.op = "check_quality_gates" /\ call.done
    /\ call.metrics.reading_level > 80
    /\ ~call.result.passed
    /\ Cardinality(ReadingAdvice(call.result.recommendations)) = 1
    /\ Len(call.result.recommendations) > 1

\* the confidences of a verdict list in tenths, as a function of the position
Tenths(verdicts) ==
    [i \in DOMAIN verdicts |-> verdicts[i].confidence.n * (10 \div verdicts[i].confidence.d)]

WithVerdict(verdicts, kind) ==
    { i \in DOMAIN verdicts : verdicts[i].verdict = kind }

\* the recommendations with the given text
Advice(recommendations, text) ==
    { i \in DOMAIN recommendations : recommendations[i].text = text }

\* C29: a failing evaluation carries exactly one recommendation naming the
\* number of needs-more-evidence verdicts when there is at least one, and
\* exactly one naming the number of refuted verdicts when there is at least
\* one, and none for a count of zero; a passing evaluation carries neither;
\* the decision carries the retry_count it was given
C29_VerdictRecommendations ==
    (call.op = "evaluate_quality" /\ call.done) =>
        LET d == call.result
            needs == Advice(d.recommendations,
                            "Find additional sources for claims marked needs-more-evidence")
            revise == Advice(d.recommendations, "Remove or revise refuted claims")
            n == Cardinality(WithVerdict(call.verdicts, "needs-more-evidence"))
            r == Cardinality(WithVerdict(call.verdicts, "refuted"))
        IN  /\ Cardinality(needs) = (IF ~d.passed /\ n > 0 THEN 1 ELSE 0)
            /\ Cardinality(revise) = (IF ~d.passed /\ r > 0 THEN 1 ELSE 0)
            /\ \A i \in needs : d.recommendations[i].n = n
            /\ \A i \in revise : d.recommendations[i].n = r
            /\ d.retry_count = call.retry_count

C29_Witness ==
    /\ call.op = "evaluate_quality" /\ call.done
    /\ ~call.result.passed
    /\ call.retry_count = 2
    /\ WithVerdict(call.verdicts, "needs-more-evidence") # {}
    /\ Cardinality(WithVerdict(call.verdicts, "refuted")) = 1
    /\ Len(call.result.recommendations) >= 3

\* C30: split_into_sentences ends a sentence only at '.', '!' or '?' followed
\* by whitespace or by the end of the text, so punctuation followed directly
\* by a non-whitespace character ("3.5", "v1.2") starts no new sentence, and
\* each sentence's start and end offsets delimit exactly the stored sentence
C30_SentencesEndAtSpacedPunctuation ==
    (call.op = "split_into_sentences" /\ call.done) =>
        \A i \in DOMAIN call.result :
            LET s == call.result[i]
            IN  /\ SubSeq(call.text, s.start_char + 1, s.end_char) = s.sentence
                /\ s.end_char < Len(call.text) =>
                     /\ s.sentence[Len(s.sentence)] \in {".", "!", "?"}
                     /\ call.text[s.end_char + 1] \in Whitespace

\* the judge's result for a map of the given coverage rate that references
\* only its own bibliography, by the values the gate compares
CleanMapJudgement(coverage_rate, verdicts, retry_count) ==
    LET decision ==
            evaluate_quality(
                [citation_coverage |-> coverage_rate,
                 unsupported_claim_rate |-> calculate_unsupported_claim_rate(verdicts),
                 avg_fact_confidence |-> calculate_average_confidence(verdicts),
                 reading_level |-> 65, total_claims |-> Len(verdicts),
                 total_sources |-> 0, total_citations |-> 0],
                verdicts, retry_count)
    IN  [passed |-> decision.passed, failure_reasons |-> decision.failure_reasons,
         should_retry |-> should_retry(decision, JudgeMaxRetries)]

\* C28: the gate decision and the retry routing depend on the metrics and the
\* retry count only: a map judged after validation, whatever issues the
\* validator reported for it, gets the passed value, the failure reasons and
\* the should_retry result of any other map with the same coverage rate; the
\* validator returns with the map as create_citation_map built it
C28_GateIgnoresValidatorOutput ==
    /\ (call.op = "judge_node" /\ call.done) =>
        LET clean == CleanMapJudgement(call.citation_map.coverage_rate,
                                       call.verdicts, call.retry_count)
        IN  /\ call.result.gate_decision.passed = clean.passed
            /\ call.result.gate_decision.failure_reasons = clean.failure_reasons
            /\ call.result.should_retry = clean.should_retry
    /\ Validated =>
        call.citation_map = create_citation_map(call.text, call.sources, call.phrases)

\* a map citing an id absent from its bibliography passes the gate
C28_Witness ==
    /\ call.op = "judge_node" /\ call.done
    /\ \E i \in DOMAIN call.issues : call.issues[i].text = "Invalid citation ID"
    /\ call.result.gate_decision.passed
    /\ ~call.result.should_retry

\* the targets of a fan-out whose task has started and not finished
InFlight ==
    { i \in DOMAIN io.targets : io.targets[i] = "in flight" }

\* C24: in a stage that fans out over URLs or search queries, the tasks in
\* flight at any moment stay within the concurrency cap (5, the cap of
\* scraping), whatever the number of targets
C24_InFlightWithinStageCap ==
    io.kind \in {"scrape_urls", "multi_query_search"} =>
        Cardinality(InFlight) <= ScrapeMaxConcurrent

C26_PermanentErrorsNotRetried ==
    io.kind = "fetch_url" =>
        \A k \in DOMAIN io.responses :
            io.responses[k] \in {"403", "404", "410"} =>
                /\ k = Len(io.responses)
                /\ io.pc = "raised"
                /\ Len(io.sleeps) = k - 1

C26_Witness ==
    /\ io.kind = "fetch_url"
    /\ io.max_retries = 2
    /\ io.responses = <<"404">>
    /\ io.sleeps = <<>>
    /\ io.pc = "raised"

StepsLeft ==
    IF pc \in {"returned", "published"} THEN 0
    ELSE IF pc = "end" THEN 1
    ELSE 2 + (26 - Len(executed))

\* C31: every run terminates: a run has at most 3 Judge evaluations and at
\* most 2 Retry executions, every stage that returns or raises brings the run
\* closer to its return, whatever the gate outcomes, so the Judge -> Retry ->
\* Index loop cannot go on forever, and the state run_pipeline returns has a
\* terminal status
C31_RunTerminates ==
    /\ [](/\ Count(executed, "judge") <= 3
          /\ Count(executed, "retry") <= 2
          /\ StepsLeft >= 0
          /\ pc = "returned" => ret.status \in {"completed", "failed"})
    /\ [][pc # "returned" => StepsLeft' < StepsLeft]_vars

\* a run returns after three Judge evaluations and two Retry executions
C31_Witness ==
    /\ pc = "returned"
    /\ Count(executed, "judge") = 3
    /\ Count(executed, "retry") = 2
    /\ ret.status = "completed"

\* the Retry executions before the latest Judge evaluation
RetriesBeforeLastJudge ==
    LET judged == { i \in DOMAIN executed : executed[i] = "judge" }
        last == CHOOSE i \in judged : \A j \in judged : j <= i
    IN  Cardinality({ i \in 1..last : executed[i] = "retry" })

\* C32: retry_count is the number of Retry executions so far (so it never
\* decreases) and never exceeds 2; the retry_count of the gate decision is the
\* run's retry_count at that Judge evaluation; should_retry is true only
\* between a failing Judge evaluation and the Retry that follows it
C32_RetryCountTracksRetries ==
    /\ state.retry_count = Count(executed, "retry")
    /\ state.retry_count <= 2
    /\ Has(state, "gate_decision") =>
         state.gate_decision.retry_count = RetriesBeforeLastJudge
    /\ state.should_retry =>
         /\ executed # <<>> /\ Last(executed) = "judge"
         /\ ~state.gate_decision.passed
         /\ pc \in {"retry", "returned"}

\* the third Judge evaluation, after two retries, has just failed
C32_Witness ==
    /\ executed # <<>> /\ Last(executed) = "judge"
    /\ state.retry_count = 2
    /\ state.gate_decision.retry_count = 2
    /\ ~state.gate_decision.passed
    /\ ~state.should_retry

\* C33: every call of acquire returns once enough time has passed, whatever
\* estimate it was called with: a coroutine sleeps in the token loop only
\* while the window holds usage that will expire (with an empty window
\* nothing changes while it sleeps, as it holds the lock, and it would sleep
\* for ever, with the callers queued on the lock)
C33_AcquireReturns ==
    \A c \in 1..NumCallers :
        tasks[c].pc = "sleep_tokens" => limiter.token_usage # <<>>

\* C34: with the default thresholds a Judge evaluation over no verdicts fails
\* the gate, whatever the citation coverage, on the average confidence of 0,
\* and asks for a retry while fewer than 2 were made; so a run that reaches
\* Finalize with no verdicts has made 3 Judge evaluations and 2 retries and
\* carries a failing gate decision
C34_NoVerdictsNeverPasses ==
    /\ (executed # <<>> /\ Last(executed) = "judge" /\ state.verdicts = <<>>) =>
        /\ state.quality_metrics.avg_fact_confidence = Zero
        /\ ~state.gate_decision.passed
        /\ state.should_retry <=> state.retry_count < 2
    /\ (ReachedFinalize /\ state.verdicts = <<>>) =>
        /\ Count(executed, "judge") = 3
        /\ Count(executed, "retry") = 2
        /\ ~state.gate_decision.passed

\* a run without claims and with every sentence cited is at Finalize
C34_Witness ==
    /\ Count(executed, "finalize") = 1
    /\ state.verdicts = <<>>
    /\ state.quality_metrics.citation_coverage = One
    /\ ~state.gate_decision.passed
    /\ state.retry_count = 2

\* the share of cited sentences of a text
CoverageOf(content) ==
    IF content.sentences = 0 THEN Zero ELSE Rat(content.cited, content.sentences)

\* C35: Write maps the citations of the text it wrote; Edit replaces the
\* article's content and reading level and leaves its citation map as Write
\* built it, and so does Seo; the Judge takes its citation_coverage from that
\* map: the coverage it evaluates is the one of the pre-edit text of the same
\* iteration, whatever the editor did to the citation markers
C35_EditKeepsCitationMap ==
    [][/\ executed' = Append(executed, "write") =>
            state'.article.citations.coverage_rate = CoverageOf(state'.article.content)
       /\ executed' = Append(executed, "edit") =>
            /\ state'.article.citations = state.article.citations
            /\ state'.article.reading_level = state'.article.content.reading
       /\ executed' = Append(executed, "seo") => state'.article = state.article
       /\ executed' = Append(executed, "judge") =>
            /\ state'.article = state.article
            /\ state'.quality_metrics.citation_coverage
                 = state.article.citations.coverage_rate]_vars

\* the Judge has evaluated a coverage that the edited text no longer has
C35_Witness ==
    /\ executed # <<>> /\ Last(executed) = "judge"
    /\ state.quality_metrics.citation_coverage = One
    /\ CoverageOf(state.article.content) = Zero
    /\ state.article.content.sentences > 0

\* C36: an article is published only if its final gate decision passed: the
\* final state a caller passes to publish_article carries a gate decision
\* whose passed flag is true
C36_PublishedOnlyIfGatePassed ==
    pc = "published" =>
        /\ Has(ret, "gate_decision")
        /\ ret.gate_decision.passed

\* C37: once DELETE /runs/{run_id} has returned success the run id stays
\* absent from the run store, also when the background task of the run was
\* still executing at the deletion and completes later
C37_DeletedRunStaysAbsent ==
    io.kind = "chat" =>
        \A r \in 1..NumRuns :
            io.deleted[r] => io.runs_store[r].status = "absent"

\* C38: groq_calls and total_tokens of the run_metrics written at Finalize
\* count the inference calls of that run only (one answered call here, with
\* the tokens reported for it), whatever other runs were answered before or
\* in between
C38_RunMetricsCountOwnCalls ==
    io.kind = "chat" =>
        \A r \in 1..NumRuns :
            io.runs_store[r].status = "completed" =>
                /\ io.runs_store[r].run_metrics.groq_calls = 1
                /\ io.runs_store[r].run_metrics.total_tokens = io.runs[r].tokens

\* the aggregate issues among the issues validate_citations returned
LackIssues ==
    SelectSeq(call.result,
              LAMBDA i : i.text = "sentences lack citations and are not marked as common knowledge")

\* C39: for a citation map create_citation_map built from a text with at
\* least one sentence, validate_citations emits its aggregate 'lack
\* citations' issue, once, exactly when the map's coverage_rate is below 1.0,
\* and the number in the issue is the number of sentences minus the number
\* the mapper counted as covered, so that the coverage_rate is the covered
\* share of the sentences
C39_LackIssueMatchesCoverage ==
    (call.op = "validate_citations" /\ call.done
        /\ call.citation_map.sentence_mappings # <<>>) =>
        LET map == call.citation_map
            total == Len(map.sentence_mappings)
        IN  /\ Len(LackIssues) <= 1
            /\ LackIssues # <<>> <=> RatLt(map.coverage_rate, One)
            /\ LackIssues # <<>> =>
                 /\ LackIssues[1].n = total - CitedCount(map.sentence_mappings)
                 /\ map.coverage_rate = Rat(total - LackIssues[1].n, total)

\* three sentences, one cited, one tagged as common knowledge and one
\* neither: the issue counts one sentence and the coverage is 2/3
C39_Witness ==
    /\ call.op = "validate_citations" /\ call.done
    /\ Len(call.citation_map.sentence_mappings) = 3
    /\ \E i \in 1..3 : call.citation_map.sentence_mappings[i].is_common_knowledge
    /\ call.citation_map.coverage_rate = Rat(2, 3)
    /\ LackIssues # <<>> /\ LackIssues[1].n = 1

====
